---------------------------- MODULE Spec2Model ----------------------------
(***************************************************************************)
(* A model of EncryptoPack (src/EncryptoPack.py): the chunk size advisor,  *)
(* the unique-name allocators, and the encrypt and decrypt jobs behind the *)
(* two buttons of the main window, acting on a file system.                *)
(*                                                                         *)
(* Representation.                                                         *)
(*  - A path is a sequence of tokens, the pieces a path string is made of: *)
(*    "/" separates components, a token that starts with "." is an        *)
(*    extension, and f"{a}{b}" is the concatenation a \o b.  Relative      *)
(*    paths are resolved against Cwd, as the operating system does.        *)
(*  - The file system maps the absolute path of every existing entry to    *)
(*    [kind, data]; data is the sequence of bytes (0..255) of a file.      *)
(*  - SHA-1, SHA-256 and AES-EAX are library code.  They are modelled as   *)
(*    ideal primitives: a digest of the right size that is injective on    *)
(*    the modelled inputs, and a stream cipher that XORs the data with a   *)
(*    keystream fixed by (key, nonce, position).                           *)
(*  - psutil reports bytes; the model counts memory in KiB so that 32 GiB  *)
(*    fits TLC's integers.                                                 *)
(*  - A tar archive is a magic prefix followed by its members, each with   *)
(*    its type, name and data, in the order tarfile adds them.             *)
(*  - A job is one atomic step: the handler runs to its message box.       *)
(***************************************************************************)
EXTENDS Integers, Sequences, FiniteSets, TLC

VARIABLES
    fs,      \* the file system: absolute path -> [kind, data, readable]
    last,    \* the report of the job that ran last (its inputs and its outcome)
    encs,    \* the successful encrypt jobs so far, by container path
    njobs,   \* jobs run so far
    blk,     \* the chunk size advisor's last two queries and answers
    alloc,   \* the name allocator's last call
    nalloc,  \* names allocated so far
    pipe     \* the cipher pipeline's last run: its inputs and what it wrote

vars == <<fs, last, encs, njobs, blk, alloc, nalloc, pipe>>

---------------------------------------------------------------------------
(* Bounds of the model.                                                    *)

MaxGiB == 33
MaxAllocs == 3

---------------------------------------------------------------------------
(* Sequences and bytes.                                                    *)

Min(a, b) == IF a <= b THEN a ELSE b

Range(s) == {s[i] : i \in 1..Len(s)}

Take(s, n) == SubSeq(s, 1, Min(n, Len(s)))

Drop(s, n) == SubSeq(s, n + 1, Len(s))

RECURSIVE SetToSeq(_)
SetToSeq(S) == IF S = {} THEN <<>>
               ELSE LET x == CHOOSE y \in S : TRUE
                    IN  <<x>> \o SetToSeq(S \ {x})

---------------------------------------------------------------------------
(* get_optimal_block_size.                                                 *)

KiBPerGiB == 1048576

NoBlock == -1

get_optimal_block_size_mut(available_ram, query_fails) ==
    IF query_fails THEN 524288
    ELSE LET gb_ram == available_ram \div KiBPerGiB
         IN  IF gb_ram <= 1 THEN 65536
             ELSE IF gb_ram <= 2 THEN 131072
             ELSE IF gb_ram <= 3 THEN 262144
             ELSE IF gb_ram <= 4 THEN 524288
             ELSE IF gb_ram <= 6 THEN 524288
             ELSE IF gb_ram <= 8 THEN 1572864
             ELSE IF gb_ram <= 12 THEN 1048576
             ELSE IF gb_ram <= 16 THEN 1572864
             ELSE IF gb_ram <= 24 THEN 1572864
             ELSE IF gb_ram <= 32 THEN 3145728
             ELSE IF gb_ram >= 32 THEN 3145728
             ELSE NoBlock

get_optimal_block_size(available_ram, query_fails) ==
    IF query_fails THEN 524288
    ELSE LET gb_ram == available_ram \div KiBPerGiB
         IN  IF gb_ram <= 1 THEN 65536
             ELSE IF gb_ram <= 2 THEN 131072
             ELSE IF gb_ram <= 3 THEN 262144
             ELSE IF gb_ram <= 4 THEN 524288
             ELSE IF gb_ram <= 6 THEN 524288
             ELSE IF gb_ram <= 8 THEN 1048576
             ELSE IF gb_ram <= 12 THEN 1048576
             ELSE IF gb_ram <= 16 THEN 1572864
             ELSE IF gb_ram <= 24 THEN 1572864
             ELSE IF gb_ram <= 32 THEN 3145728
             ELSE IF gb_ram >= 32 THEN 3145728
             ELSE NoBlock

\* The memory readings tried: every whole GiB up to MaxGiB, and one KiB below
\* the next.
MemInputs ==
    {g * KiBPerGiB + d : g \in 0..MaxGiB, d \in {0, KiBPerGiB - 1}}

---------------------------------------------------------------------------
(* Paths (os.path).                                                        *)

Sep == "/"

Cwd == <<Sep, "w">>

None == <<"<None>">>

DotTokens == {".txt", ".bin", ".pack", ".temp", ".ivkey", ".rkey"}

IsAbs(p) == Len(p) > 0 /\ p[1] = Sep

LastIndex(p, S) ==
    LET I == {i \in 1..Len(p) : p[i] \in S}
    IN  IF I = {} THEN 0 ELSE CHOOSE i \in I : \A j \in I : j <= i

dirname(p) ==
    LET i == LastIndex(p, {Sep})
    IN  IF i > 1 THEN SubSeq(p, 1, i - 1) ELSE SubSeq(p, 1, i)

basename(p) == Drop(p, LastIndex(p, {Sep}))

join(a, b) ==
    IF IsAbs(b) THEN b
    ELSE IF a = <<>> \/ a[Len(a)] = Sep THEN a \o b
    ELSE a \o <<Sep>> \o b

\* os.path.splitext of a name without separators: the extension starts at the
\* last dot, unless that dot leads the name.
splitext(n) ==
    LET i == LastIndex(n, DotTokens)
    IN  IF i > 1 THEN <<SubSeq(n, 1, i - 1), Drop(n, i - 1)>> ELSE <<n, <<>>>>

endswith(p, tok) == Len(p) > 0 /\ p[Len(p)] = tok

Resolve(p) == IF IsAbs(p) THEN p ELSE Cwd \o <<Sep>> \o p

---------------------------------------------------------------------------
(* The file system (os, open).                                             *)

File(data) == [kind |-> "file", data |-> data, readable |-> TRUE]

Dir == [kind |-> "dir", data |-> <<>>, readable |-> TRUE]

exists(f, p) == p # <<>> /\ Resolve(p) \in DOMAIN f

isfile(f, p) == exists(f, p) /\ f[Resolve(p)].kind = "file"

isdir(f, p) == exists(f, p) /\ f[Resolve(p)].kind = "dir"

getsize(f, p) == Len(f[Resolve(p)].data)

ReadFile(f, p) == f[Resolve(p)].data

\* open(p, "w") followed by the writes: the file holds exactly data.  A file
\* that was there keeps its permissions.
WriteFile(f, p, data) ==
    [q \in DOMAIN f \cup {Resolve(p)} |->
        IF q # Resolve(p) THEN f[q]
        ELSE IF q \in DOMAIN f /\ f[q].kind = "file" THEN [f[q] EXCEPT !.data = data]
        ELSE File(data)]

Remove(f, p) == [q \in DOMAIN f \ {Resolve(p)} |-> f[q]]

\* open(p, "w") succeeds when the parent directory exists and p is no directory.
CanCreate(f, p) ==
    /\ p # <<>>
    /\ ~isdir(f, p)
    /\ Resolve(dirname(Resolve(p))) \in DOMAIN f
    /\ f[dirname(Resolve(p))].kind = "dir"

---------------------------------------------------------------------------
(* NameAllocator: generate_unique_file_name, generate_unique_key_file_name.*)

CounterTok(n) == " (" \o ToString(n) \o ")"

KeyCounterTok(n) == "_" \o ToString(n)

\* The file branch's candidate with a counter.
FileCandidate(file_path, counter, add_extension) ==
    LET se == splitext(basename(file_path))
    IN  join(dirname(file_path),
             se[1] \o <<CounterTok(counter)>> \o se[2] \o <<add_extension>>)

RECURSIVE FileCounter(_, _, _, _)
FileCounter(f, file_path, add_extension, counter) ==
    IF exists(f, FileCandidate(file_path, counter, add_extension))
    THEN FileCounter(f, file_path, add_extension, counter + 1)
    ELSE counter

\* The directory branch's loop: unique_folder_name and counter.
RECURSIVE DirLoop(_, _, _, _, _)
DirLoop(f, file_path, add_extension, unique_folder_name, counter) ==
    IF exists(f, join(file_path, unique_folder_name \o <<add_extension>>))
    THEN DirLoop(f, file_path, add_extension,
                 basename(file_path) \o <<CounterTok(counter)>>, counter + 1)
    ELSE join(file_path, unique_folder_name \o <<add_extension>>)

generate_unique_file_name_mut(f, file_path, add_extension) ==
    IF isfile(f, file_path) THEN file_path \o <<add_extension>>
    ELSE IF isdir(f, file_path)
    THEN join(file_path, basename(file_path) \o <<add_extension>>)
    ELSE None

generate_unique_file_name(f, file_path, add_extension) ==
    IF isfile(f, file_path) /\ ~exists(f, file_path \o <<add_extension>>)
    THEN file_path \o <<add_extension>>
    ELSE IF isfile(f, file_path) /\ exists(f, file_path \o <<add_extension>>)
    THEN FileCandidate(file_path,
                       FileCounter(f, file_path, add_extension, 1),
                       add_extension)
    ELSE IF isdir(f, file_path)
            /\ ~exists(f, join(file_path, basename(file_path) \o <<add_extension>>))
    THEN join(file_path, basename(file_path) \o <<add_extension>>)
    ELSE IF isdir(f, file_path)
            /\ exists(f, join(file_path, basename(file_path) \o <<add_extension>>))
    THEN DirLoop(f, file_path, add_extension, basename(file_path), 1)
    ELSE None

\* The key variant's candidate with a counter: the directory of file_path is
\* not part of it (os.path.join of one argument).
KeyCandidate(file_path, counter, add_extension) ==
    LET se == splitext(basename(file_path))
    IN  se[1] \o <<KeyCounterTok(counter)>> \o se[2] \o <<add_extension>>

RECURSIVE KeyCounter(_, _, _, _)
KeyCounter(f, file_path, add_extension, counter) ==
    IF exists(f, KeyCandidate(file_path, counter, add_extension))
    THEN KeyCounter(f, file_path, add_extension, counter + 1)
    ELSE counter

generate_unique_key_file_name(f, file_path, add_extension) ==
    IF ~exists(f, file_path \o <<"_", add_extension>>)
    THEN file_path \o <<"_", add_extension>>
    ELSE KeyCandidate(file_path,
                      KeyCounter(f, file_path, add_extension, 1),
                      add_extension)

---------------------------------------------------------------------------
(* KeyMaterial: hashlib and the hex coding of the recovery key.            *)

IVSize == 16

SHA1Size == 20

SHA256Size == 32

RecoveryKeySize == 64

\* A digest of `size` bytes: injective on messages of one length up to size.
Digest(m, size, salt) ==
    [i \in 1..size |->
        IF i <= Len(m) THEN (m[i] * 3 + salt + i) % 256
        ELSE (Len(m) * 5 + salt + i) % 256]

sha1_mut(m) ==
    Digest(IF m = <<>> THEN m ELSE [m EXCEPT ![1] = 0], SHA1Size, 1)

sha1(m) == Digest(m, SHA1Size, 1)

sha256(m) == Digest(m, SHA256Size, 2)

\* str.strip() == "": only blanks (character 32).
IsBlank(text) == \A i \in 1..Len(text) : text[i] = 32

\* hexdigest(): two lower-case hex digits per byte.
HexChar(v) == IF v < 10 THEN 48 + v ELSE 87 + v

hexdigest_mut(d) ==
    [j \in 1..(2 * Len(d)) |->
        IF j % 2 = 0 THEN HexChar(d[(j + 1) \div 2] \div 16)
        ELSE HexChar(d[(j + 1) \div 2] % 16)]

hexdigest(d) ==
    [j \in 1..(2 * Len(d)) |->
        IF j % 2 = 1 THEN HexChar(d[(j + 1) \div 2] \div 16)
        ELSE HexChar(d[j \div 2] % 16)]

IsHexChar(c) == c \in (48..57) \cup (97..102) \cup (65..70)

HexVal(c) == IF c <= 57 THEN c - 48 ELSE IF c >= 97 THEN c - 87 ELSE c - 55

\* bytes.fromhex(text) raises ValueError on anything but pairs of hex digits.
FromHexRaises(text) ==
    Len(text) % 2 = 1 \/ \E i \in 1..Len(text) : ~IsHexChar(text[i])

fromhex(text) ==
    [i \in 1..(Len(text) \div 2) |->
        16 * HexVal(text[2 * i - 1]) + HexVal(text[2 * i])]

---------------------------------------------------------------------------
(* CipherPipeline: AES in EAX mode, used without its tag, is a stream      *)
(* cipher: byte number pos of the data is XORed with byte number pos of a  *)
(* keystream that (key, nonce) fix.                                        *)

RECURSIVE BitXor(_, _)
BitXor(a, b) ==
    IF a = 0 THEN b
    ELSE IF b = 0 THEN a
    ELSE ((a + b) % 2) + 2 * BitXor(a \div 2, b \div 2)

RECURSIVE Mix(_, _)
Mix(s, i) == IF i > Len(s) THEN 0 ELSE (i * s[i] + Mix(s, i + 1)) % 256

\* AES.new(key, AES.MODE_EAX, iv): the cipher object, at position 0.
AESNew_mut(key, iv) == [k |-> 0, n |-> Mix(iv, 1), pos |-> 0]

AESNew(key, iv) == [k |-> Mix(key, 1), n |-> Mix(iv, 1), pos |-> 0]

KeyStream(cipher, pos) == (cipher.k * 7 + cipher.n * 13 + pos * 29 + 1) % 256

\* cipher.encrypt(chunk) and cipher.decrypt(chunk): the bytes, and the cipher
\* object advanced by the length of the chunk.
CipherBytes(cipher, chunk) ==
    [i \in 1..Len(chunk) |-> BitXor(chunk[i], KeyStream(cipher, cipher.pos + i))]

\* A cipher object that starts every chunk at position 0.
Advance_mut(cipher, chunk) == cipher

Advance(cipher, chunk) == [cipher EXCEPT !.pos = cipher.pos + Len(chunk)]

\* Lines 762-771: read block_size bytes, encrypt, write, until a read is empty.
RECURSIVE EncryptLoop(_, _, _, _, _)
EncryptLoop(cipher, data, offset, block_size, written) ==
    LET chunk == SubSeq(data, offset + 1, Min(offset + block_size, Len(data)))
    IN  IF chunk = <<>> THEN written
        ELSE EncryptLoop(Advance(cipher, chunk), data, offset + Len(chunk),
                         block_size, written \o CipherBytes(cipher, chunk))

\* Lines 950-959: slices of block_size bytes of the ciphertext held in memory.
DecryptLoop_mut(cipher, encrypted_data, offset, block_size, written) ==
    CipherBytes(Advance(cipher, <<0>>), encrypted_data)

RECURSIVE DecryptLoop(_, _, _, _, _)
DecryptLoop(cipher, encrypted_data, offset, block_size, written) ==
    IF ~(offset < Len(encrypted_data)) THEN written
    ELSE LET chunk == SubSeq(encrypted_data, offset + 1,
                             Min(offset + block_size, Len(encrypted_data)))
         IN  DecryptLoop(Advance(cipher, chunk), encrypted_data,
                         offset + block_size, block_size,
                         written \o CipherBytes(cipher, chunk))

---------------------------------------------------------------------------
(* ArchivePacker: tarfile.  An archive is the magic "ustar" followed by    *)
(* its members, each as type flag, name length, name, data length, data.   *)

TarMagic == <<117, 115, 116, 97, 114>>

TypeFile == 48

TypeDir == 53

Sentinel == <<"~encrypto_pack">>

\* "encrypto_packed_this_tar_file", the text line 534 writes into the sentinel.
SentinelText ==
    <<101, 110, 99, 114, 121, 112, 116, 111, 95, 112, 97, 99, 107, 101, 100,
      95, 116, 104, 105, 115, 95, 116, 97, 114, 95, 102, 105, 108, 101>>

\* The characters of member names, for their place in the archive's bytes.
TokenTable ==
    <<Sep, "w", "a", "b", "c", "d", "e", "x", "y", "sub", "zz", "k",
      ".txt", ".bin", ".pack", ".temp", ".ivkey", ".rkey", "_", "_unpacked",
      "~encrypto_pack", " (1)", " (2)", " (3)", "_1", "_2", "_3",
      ";r1", ";r2">>

TokCode(t) == CHOOSE i \in 1..Len(TokenTable) : TokenTable[i] = t

Member(name, kind, data) == [name |-> name, kind |-> kind, data |-> data]

MemberBytes(m) ==
    <<IF m.kind = "dir" THEN TypeDir ELSE TypeFile, Len(m.name)>>
    \o [i \in 1..Len(m.name) |-> TokCode(m.name[i])]
    \o <<Len(m.data)>> \o m.data

RECURSIVE MembersBytes(_)
MembersBytes(ms) ==
    IF ms = <<>> THEN <<>> ELSE MemberBytes(Head(ms)) \o MembersBytes(Tail(ms))

TarBytes(ms) == TarMagic \o MembersBytes(ms)

NotTar == [ok |-> FALSE, members |-> <<>>]

\* The members of the bytes after the magic, or NotTar.
RECURSIVE ParseMembers(_)
ParseMembers(b) ==
    IF b = <<>> THEN [ok |-> TRUE, members |-> <<>>]
    ELSE IF Len(b) < 3 \/ b[1] \notin {TypeFile, TypeDir} THEN NotTar
    ELSE LET n == b[2]
         IN  IF Len(b) < n + 3
                \/ \E i \in 1..n : b[2 + i] \notin 1..Len(TokenTable)
             THEN NotTar
             ELSE LET size == b[n + 3]
                  IN  IF Len(b) < n + 3 + size THEN NotTar
                      ELSE LET rest == ParseMembers(Drop(b, n + 3 + size))
                               m == Member([i \in 1..n |-> TokenTable[b[2 + i]]],
                                           IF b[1] = TypeDir THEN "dir" ELSE "file",
                                           SubSeq(b, n + 4, n + 3 + size))
                           IN  IF rest.ok
                               THEN [ok |-> TRUE, members |-> <<m>> \o rest.members]
                               ELSE NotTar

\* tarfile.open(path, "r"): the archive's members; ok is tarfile.is_tarfile.
ParseTar(b) ==
    IF Len(b) >= Len(TarMagic) /\ Take(b, Len(TarMagic)) = TarMagic
    THEN ParseMembers(Drop(b, Len(TarMagic)))
    ELSE NotTar

\* os.listdir / os.scandir: the names in a directory, in the order the
\* file system lists them.
ListDir(f, dir) ==
    SetToSeq({basename(p) : p \in {q \in DOMAIN f :
                 q # Resolve(dir) /\ dirname(q) = Resolve(dir)}})

ListDirs(f, dir) == SelectSeq(ListDir(f, dir), LAMBDA n : isdir(f, join(dir, n)))

ListFiles(f, dir) == SelectSeq(ListDir(f, dir), LAMBDA n : ~isdir(f, join(dir, n)))

\* os.walk(top), top-down: the directories in the order they are visited.
\* A directory that cannot be listed is passed over without an error, as
\* os.walk does when it is given no onerror function.
RECURSIVE WalkList(_, _)
WalkList(f, todo) ==
    IF todo = <<>> THEN <<>>
    ELSE LET root == Head(todo)
             dirs == ListDirs(f, root)
         IN  IF ~f[Resolve(root)].readable THEN WalkList(f, Tail(todo))
             ELSE <<root>> \o WalkList(f, [i \in 1..Len(dirs) |-> join(root, dirs[i])]
                                          \o Tail(todo))

\* os.path.relpath(path, start) for a path below start.
relpath(path, start) == Drop(path, Len(start) + 1)

\* The files below name that tarfile.add cannot read.
Unreadable(f, name) ==
    {q \in DOMAIN f : /\ f[q].kind = "file" /\ ~f[q].readable
                      /\ Len(q) > Len(Resolve(name))
                      /\ Take(q, Len(Resolve(name)) + 1) = Resolve(name) \o <<Sep>>}

\* TarFile.add(name, arcname), recursive: the directory, then what it lists;
\* the archive itself is left out.
RECURSIVE AddMembers(_, _, _, _)
AddMembers(f, archive, name, arcname) ==
    IF Resolve(name) = Resolve(archive) THEN <<>>
    ELSE IF ~isdir(f, name) THEN <<Member(arcname, "file", ReadFile(f, name))>>
    ELSE LET names == ListDir(f, name)
             RECURSIVE Each(_)
             Each(i) == IF i > Len(names) THEN <<>>
                        ELSE AddMembers(f, archive, join(name, names[i]),
                                        join(arcname, names[i])) \o Each(i + 1)
         IN  <<Member(arcname, "dir", <<>>)>> \o Each(1)

\* The loop of lines 537-554 over the directories os.walk visits.  acc holds
\* the members, compressed_files, failed_list and whether an add raised
\* outside the try of lines 549-554.
RECURSIVE PackWalk(_, _, _, _, _)
PackWalk(f, folder_path, compressed_file_path, roots, acc) ==
    IF roots = <<>> \/ acc.raised THEN acc
    ELSE LET root == Head(roots)
             dirs == ListDirs(f, root)
             files == ListFiles(f, root)
             RECURSIVE AddDirs(_, _)
             AddDirs(i, a) ==
                 IF i > Len(dirs) \/ a.raised THEN a
                 ELSE LET dir_path == join(root, dirs[i])
                      IN  IF Unreadable(f, dir_path) # {}
                          THEN [a EXCEPT !.raised = TRUE]
                          ELSE AddDirs(i + 1,
                                 [a EXCEPT !.members =
                                     @ \o AddMembers(f, compressed_file_path, dir_path,
                                                     relpath(dir_path, folder_path))])
             RECURSIVE AddFiles(_, _)
             AddFiles(i, a) ==
                 IF i > Len(files) \/ a.raised THEN a
                 ELSE LET file_path == join(root, files[i])
                      IN  IF file_path = compressed_file_path THEN AddFiles(i + 1, a)
                          ELSE IF ~f[Resolve(file_path)].readable
                          THEN AddFiles(i + 1,
                                 [a EXCEPT !.failed_list = Append(@, file_path)])
                          ELSE AddFiles(i + 1,
                                 [a EXCEPT
                                    !.members = Append(@,
                                        Member(relpath(file_path, folder_path), "file",
                                               ReadFile(f, file_path))),
                                    !.compressed_files = Append(@, file_path)])
         IN  PackWalk(f, folder_path, compressed_file_path, Tail(roots),
                      AddFiles(1, AddDirs(1, acc)))

\* Lines 556-565, after the archive is closed: the sentinel is removed, and
\* the archive too if nothing was packed.
PackEnd(f3, folder_path, compressed_file_path, packed) ==
    IF packed.raised
    THEN [fs |-> f3, compressed_files |-> <<>>, raised |-> TRUE]
    ELSE [fs |-> IF packed.compressed_files = <<>>
                 THEN Remove(Remove(f3, join(folder_path, Sentinel)),
                             compressed_file_path)
                 ELSE Remove(f3, join(folder_path, Sentinel)),
          compressed_files |-> packed.compressed_files,
          raised |-> packed.failed_list # <<>>]

\* Lines 536-554: the archive is written from what the walk packs.
Archived(f2, folder_path, compressed_file_path, packed) ==
    PackEnd(WriteFile(f2, compressed_file_path, TarBytes(packed.members)),
            folder_path, compressed_file_path, packed)

Packed(f2, folder_path, compressed_file_path) ==
    Archived(f2, folder_path, compressed_file_path,
             PackWalk(f2, folder_path, compressed_file_path,
                      WalkList(f2, <<folder_path>>),
                      [members |-> <<>>, compressed_files |-> <<>>,
                       failed_list |-> <<>>, raised |-> FALSE]))

\* compress_directory: the file system it leaves, the list it returns, and
\* whether it raised.  QMessageBox.warning of line 563 is called without its
\* parent argument, which raises TypeError.
compress_directory(f, folder_path, compressed_file_path) ==
    Packed(WriteFile(WriteFile(f, join(folder_path, Sentinel), SentinelText),
                     compressed_file_path, <<>>),
           folder_path, compressed_file_path)

---------------------------------------------------------------------------
(* EncryptJob: MainWindow.encrypt_button_click.  A job's outcome is the    *)
(* file system it leaves and its report: result "success" (the final       *)
(* information box), "error" (a critical box, then return) or "crash" (an  *)
(* exception that leaves the handler).                                     *)

EncOut == [fs |-> <<>>, result |-> "error", error |-> "none",
           encrypted_file_path |-> None, file_to_encrypt |-> None,
           iv_key_file |-> None, keyfile |-> None,
           plaintext |-> <<>>, compressed_files |-> <<>>]

EncEnd(f, result, error) == [EncOut EXCEPT !.fs = f, !.result = result, !.error = error]

\* os.makedirs: the directory and every missing directory above it.
RECURSIVE MakeDirs(_, _)
MakeDirs(f, p) ==
    IF Resolve(p) \in DOMAIN f THEN f
    ELSE LET g == MakeDirs(f, dirname(Resolve(p)))
         IN  [q \in DOMAIN g \cup {Resolve(p)} |-> IF q = Resolve(p) THEN Dir ELSE g[q]]

\* Lines 781-782: os.remove of every packed file, up to the first that fails.
RECURSIVE RemoveAll(_, _, _)
RemoveAll(f, files, i) ==
    IF i > Len(files) THEN [fs |-> f, raised |-> FALSE]
    ELSE IF ~exists(f, files[i]) THEN [fs |-> f, raised |-> TRUE]
    ELSE RemoveAll(Remove(f, files[i]), files, i + 1)

\* Lines 783-787: os.walk bottom-up, os.rmdir of the directories found empty.
RECURSIVE PruneDirs(_, _, _, _)
PruneDirs(f, listed, roots, i) ==
    IF i < 1 THEN f
    ELSE LET dirs == ListDirs(listed, roots[i])
             RECURSIVE Each(_, _)
             Each(j, g) ==
                 IF j > Len(dirs) THEN g
                 ELSE LET dir_path == join(roots[i], dirs[j])
                      IN  Each(j + 1, IF ListDir(g, dir_path) = <<>>
                                      THEN Remove(g, dir_path) ELSE g)
         IN  PruneDirs(Each(1, f), listed, roots, i - 1)

\* Lines 776-787.
RemoveSources(f, file_path, compressed_files) ==
    IF isfile(f, file_path) THEN [fs |-> Remove(f, file_path), raised |-> FALSE]
    ELSE IF isdir(f, file_path)
    THEN LET removed == RemoveAll(f, compressed_files, 1)
             roots == WalkList(removed.fs, <<file_path>>)
         IN  IF removed.raised THEN removed
             ELSE [fs |-> PruneDirs(removed.fs, removed.fs, roots, Len(roots)),
                   raised |-> FALSE]
    ELSE [fs |-> f, raised |-> FALSE]

\* Lines 789-805, after the container is closed.
EncryptFinish(f, in, out) ==
    LET keyfile == generate_unique_key_file_name(f, out.file_to_encrypt, ".rkey")
        hashkey == hexdigest(sha256(in.password))
        f1 == IF in.recovery_key THEN WriteFile(f, keyfile, hashkey) ELSE f
        out1 == IF in.recovery_key THEN [out EXCEPT !.keyfile = keyfile] ELSE out
    IN  IF in.recovery_key /\ ~CanCreate(f, keyfile)
        THEN [out EXCEPT !.fs = f, !.error = "exception"]
        ELSE IF isdir(f1, in.file_path)
        THEN IF ~exists(f1, out.file_to_encrypt)
             THEN [out1 EXCEPT !.fs = f1, !.error = "exception"]
             ELSE [out1 EXCEPT !.fs = Remove(f1, out.file_to_encrypt),
                               !.result = "success"]
        ELSE [out1 EXCEPT !.fs = f1, !.result = "success"]

\* Lines 736-787: the container is created, the IV is stored, the plaintext is
\* encrypted chunk by chunk, the IV hash is written, the sources are removed.
EncryptBody(f, in, file_to_encrypt, encrypted_file_path, compressed_files) ==
    LET iv_hash == sha1(in.iv)
        key == sha256(in.password)
        out == [EncOut EXCEPT !.encrypted_file_path = encrypted_file_path,
                              !.file_to_encrypt = file_to_encrypt,
                              !.compressed_files = compressed_files]
        f1 == WriteFile(f, encrypted_file_path, <<>>)
        iv_key_file ==
            IF ~exists(f1, file_to_encrypt \o <<".ivkey">>)
            THEN file_to_encrypt \o <<".ivkey">>
            ELSE generate_unique_key_file_name(f1, file_to_encrypt, ".ivkey")
        head == IF in.separate_iv_key THEN <<>> ELSE in.iv
        f2 == IF in.separate_iv_key
              THEN WriteFile(WriteFile(f1, iv_key_file, in.iv), encrypted_file_path, head)
              ELSE WriteFile(f1, encrypted_file_path, head)
        out2 == IF in.separate_iv_key THEN [out EXCEPT !.iv_key_file = iv_key_file]
                ELSE out
    IN  IF encrypted_file_path = None THEN EncEnd(f, "crash", "ValueError")
        ELSE IF ~CanCreate(f, encrypted_file_path)
        THEN [out EXCEPT !.fs = f, !.error = "exception"]
        ELSE IF ~exists(f1, file_to_encrypt)
        THEN [out EXCEPT !.fs = f1, !.error = "exception"]
        ELSE IF in.separate_iv_key /\ ~CanCreate(f1, iv_key_file)
        THEN [out EXCEPT !.fs = f1, !.error = "exception"]
        ELSE IF ~isfile(f2, file_to_encrypt) \/ ~f2[Resolve(file_to_encrypt)].readable
        THEN [out2 EXCEPT !.fs = f2, !.error = "exception"]
        ELSE LET plaintext == ReadFile(f2, file_to_encrypt)
                 written == EncryptLoop(AESNew(key, in.iv), plaintext, 0,
                                        in.block_size, <<>>)
                 f3 == WriteFile(f2, encrypted_file_path, head \o written \o iv_hash)
                 out3 == [out2 EXCEPT !.plaintext = plaintext]
                 removed == IF in.remove_encrypted_files
                            THEN RemoveSources(f3, in.file_path, compressed_files)
                            ELSE [fs |-> f3, raised |-> FALSE]
             IN  IF removed.raised
                 THEN [out3 EXCEPT !.fs = removed.fs, !.error = "exception"]
                 ELSE EncryptFinish(removed.fs, in, out3)

\* Lines 722-730: the directory is packed; an exception ends the job.
EncryptPacked(in, compressed_file_path, packed) ==
    IF packed.raised THEN EncEnd(packed.fs, "error", "exception")
    ELSE EncryptBody(packed.fs, in, compressed_file_path,
                     generate_unique_file_name(packed.fs, in.file_path, ".pack"),
                     packed.compressed_files)

EncryptDirectory(f, in, compressed_file_path) ==
    EncryptPacked(in, compressed_file_path,
                  compress_directory(f, in.file_path, compressed_file_path))

encrypt_button_click_mut(f, in) ==
    EncryptBody(f, [in EXCEPT !.separate_iv_key = FALSE], in.file_path,
                generate_unique_file_name(f, in.file_path, ".pack"), <<>>)

\* encrypt_button_click without the comparison of lines 688-690.
encrypt_button_click_unchecked(f, in) ==
    IF in.file_path = <<>> THEN EncEnd(f, "error", "path_empty")
    ELSE IF IsBlank(in.password) THEN EncEnd(f, "error", "password_empty")
    ELSE IF ~(isfile(f, in.file_path) \/ isdir(f, in.file_path))
    THEN EncEnd(f, "error", "path_invalid")
    ELSE IF isdir(f, in.file_path)
    THEN EncryptDirectory(f, in, generate_unique_file_name(f, in.file_path, ".temp"))
    ELSE EncryptBody(f, in, in.file_path,
                     generate_unique_file_name(f, in.file_path, ".pack"), <<>>)

encrypt_button_click(f, in) ==
    IF in.file_path = <<>> THEN EncEnd(f, "error", "path_empty")
    ELSE IF IsBlank(in.password) THEN EncEnd(f, "error", "password_empty")
    ELSE IF in.password # in.confirm_password
    THEN EncEnd(f, "error", "password_mismatch")
    ELSE IF ~(isfile(f, in.file_path) \/ isdir(f, in.file_path))
            \/ ~exists(f, in.file_path)
    THEN EncEnd(f, "error", "path_invalid")
    ELSE IF isdir(f, in.file_path)
    THEN EncryptDirectory(f, in, generate_unique_file_name(f, in.file_path, ".temp"))
    ELSE EncryptBody(f, in, in.file_path,
                     generate_unique_file_name(f, in.file_path, ".pack"), <<>>)

---------------------------------------------------------------------------
(* DecryptJob: MainWindow.decrypt_button_click.                            *)

DecOut == [fs |-> <<>>, result |-> "error", error |-> "none",
           file_to_decrypt |-> None, key |-> <<>>, iv |-> <<>>,
           extraction_dir |-> None, decrypted_file_path |-> None,
           wrote |-> FALSE, written |-> <<>>, unpacked |-> FALSE,
           used_random |-> FALSE, overwrote_archive |-> FALSE,
           read_container |-> FALSE]

DecEnd(f, result, error) == [DecOut EXCEPT !.fs = f, !.result = result, !.error = error]

\* Whether a file stands where the directory p or one above it would be.
UnderFile(f, p) ==
    \E k \in 1..Len(p) : /\ (k = Len(p) \/ p[k + 1] = Sep)
                          /\ Take(p, k) \in DOMAIN f
                          /\ f[Take(p, k)].kind = "file"

\* TarFile.extractall(path): the members in archive order.  A member whose
\* target is the archive being read replaces the bytes under the reader; what
\* the reader then returns depends on its buffer: with torn the read of the
\* next member's data fails, without it the buffered bytes are served.
RECURSIVE ExtractAll(_, _, _, _, _, _)
ExtractAll(f, path, archive, members, i, torn) ==
    IF i > Len(members) THEN [fs |-> f, raised |-> FALSE]
    ELSE LET m == members[i]
             target == join(path, m.name)
             up == dirname(Resolve(target))
             f1 == IF up \in DOMAIN f THEN f ELSE MakeDirs(f, up)
         IN  IF m.kind = "dir"
             THEN IF exists(f, target)
                  THEN ExtractAll(f, path, archive, members, i + 1, torn)
                  ELSE IF UnderFile(f, up)
                  THEN [fs |-> f, raised |-> TRUE]
                  ELSE ExtractAll(MakeDirs(f, target), path, archive, members,
                                  i + 1, torn)
             ELSE IF isdir(f, target)
                     \/ UnderFile(f, up)
             THEN [fs |-> f, raised |-> TRUE]
             ELSE IF Resolve(target) = Resolve(archive) /\ torn
             THEN [fs |-> WriteFile(f1, target, <<>>), raised |-> TRUE]
             ELSE ExtractAll(WriteFile(f1, target, m.data), path, archive,
                             members, i + 1, torn)

\* Whether extractall writes a member over the archive it reads.
OverwritesArchive(path, archive, members) ==
    \E i \in 1..Len(members) :
        members[i].kind = "file" /\ Resolve(join(path, members[i].name)) = Resolve(archive)

\* DecryptFinish unpacking every archive, with or without the sentinel.
DecryptFinish_any(f, in, out) ==
    LET tar == ParseTar(ReadFile(f, out.decrypted_file_path))
        files_list == SelectSeq(tar.members, LAMBDA m : m.kind # "dir")
        marked == tar.ok
        extracted == ExtractAll(f, out.extraction_dir, out.decrypted_file_path,
                                tar.members, 1, in.torn)
        sentinel_path == join(out.extraction_dir, Sentinel)
        f1 == IF marked
              THEN Remove(Remove(extracted.fs, sentinel_path), out.decrypted_file_path)
              ELSE f
        out1 == [out EXCEPT !.unpacked = marked,
                            !.overwrote_archive =
                                marked /\ OverwritesArchive(out.extraction_dir,
                                              out.decrypted_file_path, tar.members)]
    IN  IF marked /\ extracted.raised
        THEN [out1 EXCEPT !.fs = extracted.fs, !.error = "exception"]
        ELSE IF marked /\ (~isfile(extracted.fs, sentinel_path)
                           \/ ~isfile(Remove(extracted.fs, sentinel_path),
                                      out.decrypted_file_path))
        THEN [out1 EXCEPT !.fs = IF isfile(extracted.fs, sentinel_path)
                                 THEN Remove(extracted.fs, sentinel_path)
                                 ELSE extracted.fs,
                          !.error = "exception"]
        ELSE IF in.remove_encrypted_files
        THEN IF ~isfile(f1, out.file_to_decrypt)
             THEN [out1 EXCEPT !.fs = f1, !.error = "exception"]
             ELSE [out1 EXCEPT !.fs = Remove(f1, out.file_to_decrypt),
                               !.result = "success"]
        ELSE [out1 EXCEPT !.fs = f1, !.result = "success"]

\* Lines 961-979: unpack a sentinel-marked archive, remove the container.
DecryptFinish(f, in, out) ==
    LET tar == ParseTar(ReadFile(f, out.decrypted_file_path))
        files_list == SelectSeq(tar.members, LAMBDA m : m.kind # "dir")
        marked == tar.ok /\ \E i \in 1..Len(files_list) : files_list[i].name = Sentinel
        extracted == ExtractAll(f, out.extraction_dir, out.decrypted_file_path,
                                tar.members, 1, in.torn)
        sentinel_path == join(out.extraction_dir, Sentinel)
        f1 == IF marked
              THEN Remove(Remove(extracted.fs, sentinel_path), out.decrypted_file_path)
              ELSE f
        out1 == [out EXCEPT !.unpacked = marked,
                            !.overwrote_archive =
                                marked /\ OverwritesArchive(out.extraction_dir,
                                              out.decrypted_file_path, tar.members)]
    IN  IF marked /\ extracted.raised
        THEN [out1 EXCEPT !.fs = extracted.fs, !.error = "exception"]
        ELSE IF marked /\ (~isfile(extracted.fs, sentinel_path)
                           \/ ~isfile(Remove(extracted.fs, sentinel_path),
                                      out.decrypted_file_path))
        THEN [out1 EXCEPT !.fs = IF isfile(extracted.fs, sentinel_path)
                                 THEN Remove(extracted.fs, sentinel_path)
                                 ELSE extracted.fs,
                          !.error = "exception"]
        ELSE IF in.remove_encrypted_files
        THEN IF ~isfile(f1, out.file_to_decrypt)
             THEN [out1 EXCEPT !.fs = f1, !.error = "exception"]
             ELSE [out1 EXCEPT !.fs = Remove(f1, out.file_to_decrypt),
                               !.result = "success"]
        ELSE [out1 EXCEPT !.fs = f1, !.result = "success"]

\* Lines 913-959: the extraction directory is made, the body is decrypted into
\* the decrypted file.
DecryptWrite(f, in, out, inline) ==
    LET file_to_decrypt == out.file_to_decrypt
        encrypted_file_dir == dirname(file_to_decrypt)
        name == basename(file_to_decrypt)
        base_file_name == IF endswith(name, ".pack") THEN splitext(name)[1] ELSE name
        plain_dir == join(encrypted_file_dir, base_file_name \o <<"_unpacked">>)
        extraction_dir == IF exists(f, plain_dir)
                          THEN join(encrypted_file_dir,
                                    base_file_name \o <<"_unpacked", in.random>>)
                          ELSE plain_dir
        f1 == MakeDirs(f, extraction_dir)
        decrypted_file_name == IF endswith(file_to_decrypt, ".pack")
                               THEN splitext(basename(file_to_decrypt))[1]
                               ELSE file_to_decrypt
        decrypted_file_path == join(extraction_dir, decrypted_file_name)
        out1 == [out EXCEPT !.extraction_dir = extraction_dir,
                            !.decrypted_file_path = decrypted_file_path,
                            !.used_random = exists(f, plain_dir)]
        f2 == WriteFile(f1, decrypted_file_path, <<>>)
    IN  IF ~CanCreate(f1, decrypted_file_path)
        THEN [out1 EXCEPT !.fs = f1, !.error = "exception"]
        ELSE IF ~isfile(f2, file_to_decrypt)
        THEN [out1 EXCEPT !.fs = f2, !.error = "exception"]
        ELSE LET data == ReadFile(f2, file_to_decrypt)
                 body == IF inline THEN Drop(data, IVSize) ELSE data
                 encrypted_data == IF Len(body) > SHA1Size
                                   THEN Take(body, Len(body) - SHA1Size) ELSE <<>>
                 written == DecryptLoop(AESNew(out.key, out.iv), encrypted_data, 0,
                                        in.block_size, <<>>)
                 f3 == WriteFile(f2, decrypted_file_path, written)
             IN  DecryptFinish(f3, in, [out1 EXCEPT !.wrote = TRUE,
                                                    !.written = written])

DecryptCheck_mut(f, in, out) ==
    IF ~isfile(f, out.file_to_decrypt)
       \/ (in.iv_key_file # <<>> /\ ~isfile(f, in.iv_key_file))
    THEN [out EXCEPT !.fs = f, !.error = "exception"]
    ELSE DecryptWrite(f, in,
             [out EXCEPT !.iv = IF in.iv_key_file = <<>>
                               THEN Take(ReadFile(f, out.file_to_decrypt), IVSize)
                               ELSE Take(ReadFile(f, in.iv_key_file), IVSize)],
             in.iv_key_file = <<>>)

\* Lines 877-911: the IV and the expected hash are read, the hash is compared.
\* read_container tells whether the job has opened the container; with an IV
\* file the seek of line 897 fails on a container shorter than 20 bytes.
DecryptCheck(f, in, out) ==
    LET file_to_decrypt == out.file_to_decrypt
        separate_iv_key == in.iv_key_file
        inline == separate_iv_key = <<>>
        data == ReadFile(f, file_to_decrypt)
        iv == IF inline THEN Take(data, IVSize)
              ELSE Take(ReadFile(f, separate_iv_key), IVSize)
        expected_iv_hash == Drop(data, Len(data) - SHA1Size)
        out1 == [out EXCEPT !.iv = iv, !.read_container = TRUE]
    IN  IF inline /\ ~exists(f, file_to_decrypt)
        THEN [out EXCEPT !.fs = f, !.result = "crash", !.error = "FileNotFoundError"]
        ELSE IF inline /\ getsize(f, file_to_decrypt) < IVSize + SHA1Size
        THEN [out EXCEPT !.fs = f, !.error = "container_size"]
        ELSE IF inline /\ ~isfile(f, file_to_decrypt)
        THEN [out EXCEPT !.fs = f, !.result = "crash", !.error = "IsADirectoryError"]
        ELSE IF ~inline /\ ~exists(f, separate_iv_key)
        THEN [out EXCEPT !.fs = f, !.error = "iv_key_path"]
        ELSE IF ~inline /\ getsize(f, separate_iv_key) < IVSize
        THEN [out EXCEPT !.fs = f, !.error = "iv_key_size"]
        ELSE IF ~inline /\ (~isfile(f, separate_iv_key) \/ ~isfile(f, file_to_decrypt))
        THEN [out EXCEPT !.fs = f, !.error = "exception"]
        ELSE IF ~inline /\ getsize(f, file_to_decrypt) < SHA1Size
        THEN [out EXCEPT !.fs = f, !.error = "exception", !.read_container = TRUE]
        ELSE IF sha1(iv) # expected_iv_hash
        THEN [out1 EXCEPT !.fs = f, !.error = "integrity"]
        ELSE IF ~inline /\ getsize(f, file_to_decrypt) < SHA1Size
        THEN [out1 EXCEPT !.fs = f, !.error = "container_size"]
        ELSE DecryptWrite(f, in, out1, inline)

\* Lines 840-873: the key and the container's path.
DecryptKey(f, in) ==
    LET recovery_key_file == in.recovery_key_file
        hash_password == recovery_key_file = <<>>
        password == IF hash_password THEN in.password
                    ELSE Take(ReadFile(f, recovery_key_file), RecoveryKeySize)
        key == IF hash_password THEN sha256(password) ELSE fromhex(password)
        file_name == basename(in.file_path)
        file_to_decrypt == IF isdir(f, in.file_path)
                           THEN join(in.file_path, file_name \o <<".pack">>)
                           ELSE in.file_path
    IN  IF ~hash_password /\ ~isfile(f, recovery_key_file)
        THEN DecEnd(f, "crash", "IsADirectoryError")
        ELSE IF ~hash_password /\ FromHexRaises(password)
        THEN DecEnd(f, "crash", "ValueError")
        ELSE DecryptCheck(f, in, [DecOut EXCEPT !.fs = f, !.key = key,
                                                !.file_to_decrypt = file_to_decrypt])

\* decrypt_button_click without the size test of lines 830-834.
decrypt_button_click_unsized(f, in) ==
    IF in.file_path = <<>> THEN DecEnd(f, "error", "path_empty")
    ELSE IF IsBlank(in.password) /\ in.recovery_key_file = <<>>
    THEN DecEnd(f, "error", "password_empty")
    ELSE IF ~(isfile(f, in.file_path) \/ isdir(f, in.file_path))
    THEN DecEnd(f, "error", "path_invalid")
    ELSE IF in.recovery_key_file # <<>> /\ ~exists(f, in.recovery_key_file)
    THEN DecEnd(f, "error", "recovery_key_path")
    ELSE IF in.iv_key_file # <<>> /\ ~exists(f, in.iv_key_file)
    THEN DecEnd(f, "error", "iv_key_path")
    ELSE DecryptKey(f, in)

\* Lines 814-838: the validation of the entries.
decrypt_button_click(f, in) ==
    IF in.file_path = <<>> THEN DecEnd(f, "error", "path_empty")
    ELSE IF IsBlank(in.password) /\ in.recovery_key_file = <<>>
    THEN DecEnd(f, "error", "password_empty")
    ELSE IF ~(isfile(f, in.file_path) \/ isdir(f, in.file_path))
            \/ ~exists(f, in.file_path)
    THEN DecEnd(f, "error", "path_invalid")
    ELSE IF in.recovery_key_file # <<>> /\ ~exists(f, in.recovery_key_file)
    THEN DecEnd(f, "error", "recovery_key_path")
    ELSE IF in.recovery_key_file # <<>>
            /\ getsize(f, in.recovery_key_file) < RecoveryKeySize
    THEN DecEnd(f, "error", "recovery_key_size")
    ELSE IF in.iv_key_file # <<>> /\ ~exists(f, in.iv_key_file)
    THEN DecEnd(f, "error", "iv_key_path")
    ELSE DecryptKey(f, in)

---------------------------------------------------------------------------
(* Values of the variables a specification does not use.                   *)

NoLast == [op |-> "none"]

NoBlk == [op |-> "none", m1 |-> 0, m2 |-> 0, r1 |-> 0, r2 |-> 0]

NoPipe == [op |-> "none"]

NoCall == [fn |-> "none", path |-> <<>>, ext |-> "", ret |-> None]

NoAlloc == [fn |-> "none", path |-> <<>>, ext |-> "", ret |-> None,
            pre |-> <<>>, before |-> NoCall]

EmptyFS == (<<Sep>> :> Dir) @@ (Cwd :> Dir)

---------------------------------------------------------------------------
(* The chunk size advisor on its own: two memory readings and the answers. *)

BlockInit ==
    /\ fs = EmptyFS /\ last = NoLast /\ encs = <<>> /\ njobs = 0
    /\ alloc = NoAlloc /\ nalloc = 0 /\ pipe = NoPipe
    /\ blk = NoBlk

\* psutil.virtual_memory() answers: blk keeps the previous job's reading as m1
\* and this job's as m2.
QueryMemory ==
    /\ \E m \in MemInputs :
          blk' = [op |-> "ok", m1 |-> blk.m2, m2 |-> m,
                  r1 |-> get_optimal_block_size(blk.m2, FALSE),
                  r2 |-> get_optimal_block_size(m, FALSE)]
    /\ UNCHANGED <<fs, last, encs, njobs, alloc, nalloc, pipe>>

\* psutil.virtual_memory() raises.
QueryFails ==
    /\ blk' = [op |-> "failed", m1 |-> blk.m2, m2 |-> blk.m2,
               r1 |-> get_optimal_block_size(blk.m2, TRUE),
               r2 |-> get_optimal_block_size(blk.m2, TRUE)]
    /\ UNCHANGED <<fs, last, encs, njobs, alloc, nalloc, pipe>>

BlockNext == QueryMemory \/ QueryFails

SpecBlock == BlockInit /\ [][BlockNext]_vars

---------------------------------------------------------------------------
(* The name allocators on their own: a caller asks for a name and creates  *)
(* the file of that name, as both jobs do.                                 *)

NameTree ==
    EmptyFS
    @@ (Resolve(<<"a", ".txt">>) :> File(<<>>))
    @@ (Resolve(<<"sub">>) :> Dir)
    @@ (Resolve(<<"sub", Sep, "c">>) :> File(<<>>))
    @@ (Resolve(<<"d">>) :> Dir)

\* File systems a call may find: nothing taken, a numbered name taken while
\* the plain one is free, and the plain name and counter 2 taken.
NameInitFS ==
    { NameTree,
      NameTree @@ (Resolve(<<"a", " (1)", ".txt", ".pack">>) :> File(<<>>)),
      NameTree @@ (Resolve(<<"a", ".txt", ".pack">>) :> File(<<>>))
               @@ (Resolve(<<"a", " (2)", ".txt", ".pack">>) :> File(<<>>))
               @@ (Resolve(<<"d", Sep, "d", ".temp">>) :> File(<<>>))
               @@ (Resolve(<<"d", Sep, "d", " (2)", ".temp">>) :> File(<<>>)) }

NamePaths ==
    { <<"a", ".txt">>, <<Sep, "w", Sep, "sub", Sep, "c">>, <<"d">>, <<"zz">> }

NamesInit ==
    /\ fs \in NameInitFS
    /\ last = NoLast /\ encs = <<>> /\ njobs = 0 /\ blk = NoBlk
    /\ alloc = NoAlloc /\ nalloc = 0 /\ pipe = NoPipe

CallOf(a) == [fn |-> a.fn, path |-> a.path, ext |-> a.ext, ret |-> a.ret]

AllocFile ==
    /\ nalloc < MaxAllocs
    /\ \E p \in NamePaths, e \in {".pack", ".temp"} :
          LET ret == generate_unique_file_name(fs, p, e)
          IN  /\ alloc' = [fn |-> "file", path |-> p, ext |-> e, ret |-> ret,
                           pre |-> fs, before |-> CallOf(alloc)]
              /\ fs' = IF ret = None THEN fs ELSE WriteFile(fs, ret, <<>>)
    /\ nalloc' = nalloc + 1
    /\ UNCHANGED <<last, encs, njobs, blk, pipe>>

AllocKey ==
    /\ nalloc < MaxAllocs
    /\ \E p \in NamePaths, e \in {".ivkey", ".rkey"} :
          LET ret == generate_unique_key_file_name(fs, p, e)
          IN  /\ alloc' = [fn |-> "key", path |-> p, ext |-> e, ret |-> ret,
                           pre |-> fs, before |-> CallOf(alloc)]
              /\ fs' = WriteFile(fs, ret, <<>>)
    /\ nalloc' = nalloc + 1
    /\ UNCHANGED <<last, encs, njobs, blk, pipe>>

NamesNext == AllocFile \/ AllocKey

SpecNames == NamesInit /\ [][NamesNext]_vars

---------------------------------------------------------------------------
(* Properties of the chunk size advisor and of the name allocators.        *)

GiB(n) == n * KiBPerGiB

BlockSizes == {65536, 131072, 262144, 524288, 1048576, 1572864, 3145728}

\* C10: Chunk size monotonicity. Every memory reading gets a chunk size, the
\* chunk size is one of the seven documented values, and for two readings
\* m1 <= m2 the chunk size of m1 is at most that of m2; 1 GiB gives 65536,
\* 8 GiB gives 1048576, 32 GiB gives 3145728, and a failed memory query gives
\* 524288.
ChunkSizeMonotone ==
    /\ blk.op = "ok" =>
          /\ blk.r1 \in BlockSizes
          /\ blk.r2 \in BlockSizes
          /\ (blk.m1 <= blk.m2 => blk.r1 <= blk.r2)
          /\ (blk.m2 <= blk.m1 => blk.r2 <= blk.r1)
          /\ (blk.m2 = GiB(1) => blk.r2 = 65536)
          /\ (blk.m2 = GiB(8) => blk.r2 = 1048576)
          /\ (blk.m2 = GiB(32) => blk.r2 = 3145728)
    /\ blk.op = "failed" => blk.r2 = 524288

\* Two readings across the documented tiers: 8 GiB, then 32 GiB.
ChunkSizeWitness ==
    /\ blk.op = "ok"
    /\ blk.m1 = GiB(8) /\ blk.r1 = 1048576
    /\ blk.m2 = GiB(32) /\ blk.r2 = 3145728

\* The last allocator call was made on an existing file or directory.
PathExisted ==
    /\ alloc.fn # "none"
    /\ isfile(alloc.pre, alloc.path) \/ isdir(alloc.pre, alloc.path)

\* C8: NameAllocator freshness. Called on an existing file or directory, both
\* allocators return a path (never no value), and the path they return did
\* not exist when they were called.
NameFresh ==
    PathExisted => /\ alloc.ret # None
                   /\ ~exists(alloc.pre, alloc.ret)

\* A call whose plain candidate was taken and that returned a fresh name.
NameFreshWitness ==
    /\ PathExisted
    /\ alloc.fn = "file"
    /\ exists(alloc.pre, alloc.path \o <<alloc.ext>>)
    /\ alloc.ret # None
    /\ ~exists(alloc.pre, alloc.ret)

\* The names the allocators hand out, as the design words them.  The first
\* name: path+suffix for a file, <path>/<basename>+suffix for a directory,
\* path_suffix for a key file.
FirstName(fn, pre, path, ext) ==
    IF fn = "key" THEN path \o <<"_", ext>>
    ELSE IF isdir(pre, path) THEN path \o <<Sep>> \o basename(path) \o <<ext>>
    ELSE path \o <<ext>>

\* The name with counter n: " (n)" before the original extension, beside the
\* file or inside the directory; for a key file "_n" before the original
\* extension, in the working directory.
NthName(fn, pre, path, ext, n) ==
    LET name == basename(path)
        dot  == LastIndex(name, DotTokens)
        stem == IF dot > 1 THEN SubSeq(name, 1, dot - 1) ELSE name
        extn == IF dot > 1 THEN SubSeq(name, dot, Len(name)) ELSE <<>>
        here == SubSeq(path, 1, Len(path) - Len(name))
    IN  IF fn = "key" THEN stem \o <<"_" \o ToString(n)>> \o extn \o <<ext>>
        ELSE IF isdir(pre, path)
        THEN path \o <<Sep>> \o name \o <<" (" \o ToString(n) \o ")", ext>>
        ELSE here \o stem \o <<" (" \o ToString(n) \o ")">> \o extn \o <<ext>>

CounterLimit == MaxAllocs + 3

\* The counter of a returned name: 0 for the first name.
CounterOf(fn, pre, path, ext, ret) ==
    IF ret = FirstName(fn, pre, path, ext) THEN 0
    ELSE CHOOSE n \in 1..CounterLimit : ret = NthName(fn, pre, path, ext, n)

\* From the first name on, the returned name carries the smallest counter
\* whose name is free.
SmallestFree(first) ==
    IF ~exists(alloc.pre, first) THEN alloc.ret = first
    ELSE \E n \in 1..CounterLimit :
            /\ alloc.ret = NthName(alloc.fn, alloc.pre, alloc.path, alloc.ext, n)
            /\ ~exists(alloc.pre, alloc.ret)
            /\ \A m \in 1..(n - 1) :
                  exists(alloc.pre,
                         NthName(alloc.fn, alloc.pre, alloc.path, alloc.ext, m))

\* Two calls in a row on the same base path.
SameBaseTwice ==
    /\ alloc.before.fn = alloc.fn
    /\ alloc.before.path = alloc.path
    /\ alloc.before.ext = alloc.ext
    /\ alloc.before.ret # None

\* The second of two calls in a row returns another name, with a larger counter.
LaterIsLarger ==
    SameBaseTwice =>
        /\ alloc.ret # alloc.before.ret
        /\ CounterOf(alloc.fn, alloc.pre, alloc.path, alloc.ext, alloc.ret)
             > CounterOf(alloc.fn, alloc.pre, alloc.path, alloc.ext,
                         alloc.before.ret)

---------------------------------------------------------------------------
(* The application: encryption and decryption jobs started from the        *)
(* window, one at a time, over the files of the working directory.         *)

MaxJobs == 2

\* An archive made by another program: one file x, no sentinel.
PlainArchive == TarBytes(<<Member(<<"x">>, "file", <<1>>)>>)

\* A container made earlier from that archive with the password "p", the IV
\* inside, and renamed since: lines 744-774.
RenamedContainer ==
    LET iv == [i \in 1..IVSize |-> 100 + i]
    IN  iv \o EncryptLoop(AESNew(sha256(<<112>>), iv), PlainArchive, 0,
                          get_optimal_block_size(8 * KiBPerGiB, FALSE), <<>>)
           \o sha1(iv)

\* The working directory at start: a 17-byte file, an empty file, an archive
\* that carries the sentinel, a tree with a subdirectory, a directory holding
\* a file of its own name, a directory that takes the first extraction
\* directory name of e.pack, a directory that holds a file with the
\* sentinel's name, a renamed container of an archive without the sentinel,
\* and zz.rkey, 64 letters "z", which
\* are no hexadecimal digits.
MainFS ==
    EmptyFS
    @@ (Resolve(<<"a", ".txt">>) :>
            File(<<10, 20, 30, 40, 50, 60, 70, 80, 90, 1, 2, 3, 4, 5, 6, 7, 8>>))
    @@ (Resolve(<<"e">>) :> File(<<>>))
    @@ (Resolve(<<"e", "_unpacked">>) :> Dir)
    @@ (Resolve(<<"k">>) :>
            File(TarBytes(<<Member(Sentinel, "file", SentinelText),
                            Member(<<"x">>, "file", <<1>>)>>)))
    @@ (Resolve(<<"d">>) :> Dir)
    @@ (Resolve(<<"d", Sep, "x">>) :> File(<<7>>))
    @@ (Resolve(<<"d", Sep, "sub">>) :> Dir)
    @@ (Resolve(<<"d", Sep, "sub", Sep, "y">>) :> File(<<8, 9>>))
    @@ (Resolve(<<"c">>) :> Dir)
    @@ (Resolve(<<"c", Sep, "c">>) :> File(<<5>>))
    @@ (Resolve(<<"b">>) :> Dir)
    @@ (Resolve(join(<<"b">>, Sentinel)) :> File(<<3>>))
    @@ (Resolve(<<"b", Sep, "x">>) :> File(<<4>>))
    @@ (Resolve(<<"b", ".bin">>) :> File(RenamedContainer))
    @@ (Resolve(<<"zz", ".rkey">>) :> File([i \in 1..RecoveryKeySize |-> 122]))

\* Password entries: "p", "q", one space, nothing.
PasswordP == <<112>>

PasswordQ == <<113>>

PasswordPairs ==
    { <<PasswordP, PasswordP>>, <<PasswordP, PasswordQ>>, <<<<32>>, <<32>>>>,
      <<<<>>, <<>>>> }

\* get_random_bytes(16): the values drawn.
IVs == { [i \in 1..IVSize |-> i], [i \in 1..IVSize |-> 200 - i] }

\* generate_random_string(5), with the ";" before it: the values drawn.
RandomStrings == {";r1", ";r2"}

\* The memory reading of the jobs' get_optimal_block_size().
JobMemory == 8 * KiBPerGiB

JobBlockSize == get_optimal_block_size(JobMemory, FALSE)

\* A path below the working directory as the user types it.
Typed(p) == Drop(p, Len(Cwd) + 1)

TopLevel(f) == {Typed(p) : p \in {q \in DOMAIN f : q # Cwd /\ dirname(q) = Cwd}}

FilesEnding(f, ext) ==
    {Typed(p) : p \in {q \in DOMAIN f : /\ Len(q) > Len(Cwd) + 1
                                        /\ f[q].kind = "file"
                                        /\ endswith(q, ext)}}

\* What the operating system refuses to open for reading while a job on
\* file_path runs: nothing, one file of the folder, one file of a subfolder,
\* every file of the folder with the sentinel, or the folder itself, which
\* then cannot be listed.
Denials(file_path) ==
    IF file_path = <<"d">>
    THEN {{}, {Resolve(<<"d", Sep, "x">>)}, {Resolve(<<"d", Sep, "sub", Sep, "y">>)}}
    ELSE IF file_path = <<"b">>
    THEN {{}, {Resolve(join(<<"b">>, Sentinel)), Resolve(<<"b", Sep, "x">>)},
          {Resolve(<<"b">>)}}
    ELSE {{}}

\* The file system with reading refused for the files of denied, and with
\* reading allowed for every file.
Deny(f, denied) ==
    [q \in DOMAIN f |-> [f[q] EXCEPT !.readable = (q \notin denied)]]

Allow(f) == Deny(f, {})

EncryptInputs ==
    UNION { { [file_path |-> p, password |-> w[1], confirm_password |-> w[2],
               separate_iv_key |-> s, recovery_key |-> r,
               remove_encrypted_files |-> d, iv |-> iv,
               block_size |-> JobBlockSize, denied |-> u] :
                w \in PasswordPairs, s \in BOOLEAN, r \in BOOLEAN, d \in BOOLEAN,
                iv \in IVs, u \in Denials(p) } :
            p \in {<<"a", ".txt">>, <<"e">>, <<"k">>, <<"d">>, <<"c">>, <<"b">>,
                   <<"zz">>, <<>>} }

DecryptInputs(f) ==
    { [file_path |-> p, password |-> w, recovery_key_file |-> r,
       iv_key_file |-> k, remove_encrypted_files |-> d,
       block_size |-> JobBlockSize, random |-> x, torn |-> t] :
        p \in {q \in TopLevel(f) : isdir(f, q) \/ endswith(q, ".pack")}
               \cup {<<"a", ".txt">>, <<"b", ".bin">>, Resolve(<<"b", ".bin">>),
                     <<"zz">>, <<>>},
        w \in {PasswordP, PasswordQ, <<>>},
        r \in {<<>>, <<"a", ".txt">>, <<"zz">>} \cup FilesEnding(f, ".rkey"),
        k \in {<<>>, <<"e">>, <<"zz">>} \cup FilesEnding(f, ".ivkey"),
        d \in BOOLEAN, x \in RandomStrings, t \in BOOLEAN }

\* The files below a directory, by relative path, with their contents.
TreeOf(f, dir) ==
    IF ~isdir(f, dir) THEN {}
    ELSE { <<relpath(q, Resolve(dir)), f[q].data>> :
             q \in {p \in DOMAIN f : /\ f[p].kind = "file"
                                     /\ Len(p) > Len(Resolve(dir))
                                     /\ Take(p, Len(Resolve(dir)) + 1)
                                          = Resolve(dir) \o <<Sep>>} }

\* What a job reports: its outcome without the file system it leaves.
Report(out) == [k \in DOMAIN out \ {"fs"} |-> out[k]]

Init ==
    /\ fs = MainFS /\ last = NoLast /\ encs = <<>> /\ njobs = 0
    /\ blk = NoBlk /\ alloc = NoAlloc /\ nalloc = 0 /\ pipe = NoPipe

\* What encs remembers of a job that reported success.
Made(f, in, out) ==
    [in |-> in, out |-> Report(out), tree |-> TreeOf(f, in.file_path),
     source |-> IF isfile(f, in.file_path) THEN ReadFile(f, in.file_path) ELSE <<>>,
     container |-> ReadFile(out.fs, out.encrypted_file_path)]

\* The Encrypt button: the whole of encrypt_button_click.  encs remembers,
\* for the container of each job that reported success, what went into it.
EncryptJob ==
    /\ last = NoLast /\ njobs < MaxJobs
    /\ \E in \in EncryptInputs :
       \E out \in {encrypt_button_click(Deny(fs, in.denied), in)} :
          /\ fs' = Allow(out.fs)
          /\ last' = [op |-> "encrypt", in |-> in, pre |-> fs, out |-> Report(out)]
          /\ encs' = IF out.result = "success"
                     THEN [p \in DOMAIN encs \cup {Resolve(out.encrypted_file_path)} |->
                             IF p = Resolve(out.encrypted_file_path)
                             THEN Made(fs, in, out) ELSE encs[p]]
                     ELSE encs
    /\ njobs' = njobs + 1
    /\ UNCHANGED <<blk, alloc, nalloc, pipe>>

\* The Decrypt button: the whole of decrypt_button_click.  The random suffix
\* is one the loop of lines 919-922 stops at, and is drawn only if needed, as
\* is the reader's behaviour on an overwritten archive.
DecryptJob ==
    /\ last = NoLast /\ njobs < MaxJobs
    /\ \E in \in DecryptInputs(fs) : \E out \in {decrypt_button_click(fs, in)} :
          /\ out.used_random \/ in.random = ";r1"
          /\ out.used_random => ~exists(fs, out.extraction_dir)
          /\ out.overwrote_archive \/ ~in.torn
          /\ fs' = out.fs
          /\ last' = [op |-> "decrypt", in |-> in, pre |-> fs, out |-> Report(out)]
    /\ njobs' = njobs + 1
    /\ UNCHANGED <<encs, blk, alloc, nalloc, pipe>>

\* The message box that ends a job is closed.
Dismiss ==
    /\ last # NoLast
    /\ last' = NoLast
    /\ UNCHANGED <<fs, encs, njobs, blk, alloc, nalloc, pipe>>

\* Somebody else changes a stored container or IV file: its first byte.
Tamper ==
    /\ last = NoLast /\ njobs < MaxJobs
    /\ \E p \in DOMAIN fs :
          /\ fs[p].kind = "file" /\ fs[p].data # <<>>
          /\ endswith(p, ".pack") \/ endswith(p, ".ivkey")
          /\ fs' = [fs EXCEPT ![p].data[1] = (@ + 128) % 256]
    /\ UNCHANGED <<last, encs, njobs, blk, alloc, nalloc, pipe>>

Next == EncryptJob \/ DecryptJob \/ Dismiss \/ Tamper

Spec == Init /\ [][Next]_vars

---------------------------------------------------------------------------
(* Properties of the jobs.                                                 *)

\* The container a decryption job is pointed at: the file itself, or for a
\* directory the container of the directory's name inside it.
Pointed(l) ==
    IF isdir(l.pre, l.in.file_path)
    THEN Resolve(join(l.in.file_path, basename(l.in.file_path) \o <<".pack">>))
    ELSE Resolve(l.in.file_path)

\* The last job decrypts a container an earlier job produced, as produced.
DecryptsProduced ==
    /\ last.op = "decrypt"
    /\ Pointed(last) \in DOMAIN encs
    /\ Pointed(last) \in DOMAIN last.pre
    /\ last.pre[Pointed(last)].data = encs[Pointed(last)].container

Produced == encs[Pointed(last)]

\* The last job was given the IV the way the container stores it: no IV file
\* for an inline container, the generated IV file, as written, otherwise.
IVAsProduced ==
    IF Produced.in.separate_iv_key
    THEN /\ last.in.iv_key_file = Produced.out.iv_key_file
         /\ isfile(last.pre, last.in.iv_key_file)
         /\ ReadFile(last.pre, last.in.iv_key_file) = Produced.in.iv
    ELSE last.in.iv_key_file = <<>>

PasswordAsProduced ==
    last.in.password = Produced.in.password /\ last.in.recovery_key_file = <<>>

FileRoundTripCase ==
    /\ DecryptsProduced
    /\ Produced.out.file_to_encrypt = Produced.in.file_path
    /\ IVAsProduced /\ PasswordAsProduced

\* F is an archive that carries the sentinel.
Marked(F) ==
    /\ ParseTar(F).ok
    /\ \E i \in 1..Len(ParseTar(F).members) :
          /\ ParseTar(F).members[i].kind = "file"
          /\ ParseTar(F).members[i].name = Sentinel

\* C1: decrypting the container of a file F with the encryption password, the
\* IV given as the container stores it, writes a decrypted file whose bytes
\* are those of F, and the job reports success; the file is there at the end
\* unless F is an archive that carries the sentinel, which is unpacked.
FileRoundTrip ==
    FileRoundTripCase =>
        /\ last.out.result = "success"
        /\ last.out.wrote
        /\ last.out.written = Produced.source
        /\ last.out.unpacked = Marked(Produced.source)
        /\ ~last.out.unpacked =>
              /\ isfile(fs, last.out.decrypted_file_path)
              /\ ReadFile(fs, last.out.decrypted_file_path) = Produced.source

FileRoundTripWitness ==
    /\ FileRoundTripCase
    /\ Produced.in.separate_iv_key
    /\ Len(Produced.source) > IVSize
    /\ last.out.written = Produced.source
    /\ isfile(fs, last.out.decrypted_file_path)
    /\ ReadFile(fs, last.out.decrypted_file_path) = Produced.source

FileRoundTripInlineWitness ==
    /\ FileRoundTripCase
    /\ ~Produced.in.separate_iv_key
    /\ Produced.source = <<>>
    /\ last.out.used_random
    /\ last.out.result = "success"

DirRoundTripCase ==
    /\ DecryptsProduced
    /\ Produced.out.file_to_encrypt # Produced.in.file_path
    /\ IVAsProduced /\ PasswordAsProduced

\* C2: decrypting the container of a directory tree leaves an extraction
\* directory with every original file at its relative path with its contents,
\* without the sentinel and without the intermediate decrypted archive.
DirRoundTrip ==
    DirRoundTripCase =>
        /\ last.out.result = "success"
        /\ \A e \in Produced.tree :
              /\ isfile(fs, join(last.out.extraction_dir, e[1]))
              /\ ReadFile(fs, join(last.out.extraction_dir, e[1])) = e[2]
        /\ ~exists(fs, join(last.out.extraction_dir, Sentinel))
        /\ ~exists(fs, last.out.decrypted_file_path)

\* A tree with no entry of the directory's own name does round-trip.
DirRoundTripReached ==
    /\ DirRoundTripCase
    /\ last.out.unpacked
    /\ Produced.tree # {}
    /\ \A e \in Produced.tree :
          /\ isfile(fs, join(last.out.extraction_dir, e[1]))
          /\ ReadFile(fs, join(last.out.extraction_dir, e[1])) = e[2]

\* The last job decrypts a container an earlier job produced, whose bytes
\* after the first skip are as produced.
DecryptsProducedAfter(skip) ==
    /\ last.op = "decrypt"
    /\ Pointed(last) \in DOMAIN encs
    /\ Pointed(last) \in DOMAIN last.pre
    /\ Len(last.pre[Pointed(last)].data) = Len(Produced.container)
    /\ Drop(last.pre[Pointed(last)].data, skip) = Drop(Produced.container, skip)

\* The IV the last job is presented with, in the mode the container was
\* produced in.
PresentedIV ==
    IF Produced.in.separate_iv_key
    THEN Take(ReadFile(last.pre, last.in.iv_key_file), IVSize)
    ELSE Take(last.pre[Pointed(last)].data, IVSize)

TamperedIVCase ==
    /\ DecryptsProducedAfter(IF Produced.in.separate_iv_key THEN 0 ELSE IVSize)
    /\ ~IsBlank(last.in.password) /\ last.in.recovery_key_file = <<>>
    /\ IF Produced.in.separate_iv_key
       THEN /\ isfile(last.pre, last.in.iv_key_file)
            /\ getsize(last.pre, last.in.iv_key_file) >= IVSize
       ELSE last.in.iv_key_file = <<>>
    /\ PresentedIV # Produced.in.iv

\* C3: a decryption presented with an IV that is not the encryption's ends
\* with the integrity error, having made no extraction directory and written
\* no plaintext: the file system is as it was.
TamperedIV ==
    TamperedIVCase =>
        /\ last.out.result = "error" /\ last.out.error = "integrity"
        /\ last.out.extraction_dir = None
        /\ ~last.out.wrote
        /\ fs = last.pre

TamperedIVWitness ==
    /\ TamperedIVCase
    /\ ~Produced.in.separate_iv_key
    /\ last.out.error = "integrity"

TamperedIVFileWitness ==
    /\ TamperedIVCase
    /\ Produced.in.separate_iv_key
    /\ last.in.iv_key_file = Produced.out.iv_key_file
    /\ last.out.error = "integrity"

LastSucceeded == last.op = "encrypt" /\ last.out.result = "success"

Container == ReadFile(fs, last.out.encrypted_file_path)

Ciphertext ==
    EncryptLoop(AESNew(sha256(last.in.password), last.in.iv), last.out.plaintext,
                0, last.in.block_size, <<>>)

\* C4: after a successful encryption of N bytes the container is the IV, the
\* N ciphertext bytes and SHA-1(IV) in inline mode, and the N ciphertext
\* bytes and SHA-1(IV) in external mode, where the IV file is the IV.
ContainerLayout ==
    LastSucceeded =>
        /\ isfile(fs, last.out.encrypted_file_path)
        /\ Len(Ciphertext) = Len(last.out.plaintext)
        /\ Len(last.in.iv) = IVSize /\ Len(sha1(last.in.iv)) = SHA1Size
        /\ IF last.in.separate_iv_key
           THEN /\ Container = Ciphertext \o sha1(last.in.iv)
                /\ Len(Container) = Len(last.out.plaintext) + SHA1Size
                /\ isfile(fs, last.out.iv_key_file)
                /\ ReadFile(fs, last.out.iv_key_file) = last.in.iv
           ELSE /\ Container = last.in.iv \o Ciphertext \o sha1(last.in.iv)
                /\ Len(Container) = Len(last.out.plaintext) + IVSize + SHA1Size
                /\ last.out.iv_key_file = None

ContainerLayoutWitness ==
    /\ LastSucceeded
    /\ last.in.separate_iv_key
    /\ Len(last.out.plaintext) > IVSize
    /\ Len(Container) = Len(last.out.plaintext) + SHA1Size

ExternalIVCase ==
    /\ DecryptsProduced
    /\ Produced.in.separate_iv_key
    /\ \/ last.in.iv_key_file = <<>>
       \/ ~isfile(last.pre, last.in.iv_key_file)
       \/ ReadFile(last.pre, last.in.iv_key_file) = <<>>
       \/ Take(ReadFile(last.pre, last.in.iv_key_file), IVSize) # Produced.in.iv

\* C5: a container produced with external IV storage, decrypted without an IV
\* file or with one whose first 16 bytes are not the IV, is never reported
\* decrypted and no plaintext is written; with a password entered the job
\* ends with a path, size or integrity error.
ExternalIVRequired ==
    ExternalIVCase =>
        /\ last.out.result # "success"
        /\ ~last.out.wrote
        /\ last.out.extraction_dir = None
        /\ (~IsBlank(last.in.password) /\ last.in.recovery_key_file = <<>>)
              => /\ last.out.result = "error"
                 /\ last.out.error \in {"iv_key_path", "iv_key_size",
                                        "container_size", "integrity"}

ExternalIVRequiredWitness ==
    /\ ExternalIVCase
    /\ last.in.iv_key_file = <<>>
    /\ last.out.error = "integrity"

ExternalIVOtherFileWitness ==
    /\ ExternalIVCase
    /\ isfile(last.pre, last.in.iv_key_file)
    /\ getsize(last.pre, last.in.iv_key_file) = IVSize
    /\ last.out.error = "integrity"

WrongPasswordCase ==
    /\ DecryptsProduced
    /\ IVAsProduced
    /\ last.in.recovery_key_file = <<>>
    /\ ~IsBlank(last.in.password)
    /\ last.in.password # Produced.in.password
    /\ Produced.out.plaintext # <<>>

\* C6: decrypting a valid container with another password passes the IV-hash
\* check and reports success, and what it writes differs from the plaintext.
WrongPassword ==
    WrongPasswordCase =>
        /\ last.out.error # "integrity"
        /\ last.out.result = "success"
        /\ last.out.wrote
        /\ last.out.written # Produced.out.plaintext
        /\ Len(last.out.written) = Len(Produced.out.plaintext)

WrongPasswordWitness ==
    /\ WrongPasswordCase
    /\ last.out.result = "success"
    /\ isfile(fs, last.out.decrypted_file_path)
    /\ ReadFile(fs, last.out.decrypted_file_path) # Produced.out.plaintext

RecoveryKeyCase ==
    /\ DecryptsProduced
    /\ Produced.in.recovery_key
    /\ last.in.recovery_key_file = Produced.out.keyfile
    /\ isfile(last.pre, last.in.recovery_key_file)
    /\ ReadFile(last.pre, last.in.recovery_key_file)
         = hexdigest(sha256(Produced.in.password))

WithPassword ==
    decrypt_button_click(last.pre,
        [last.in EXCEPT !.recovery_key_file = <<>>,
                        !.password = Produced.in.password])

\* C7: decrypting with the generated recovery key file, whatever the password
\* field holds, does what decrypting with the encryption password does, and
\* a job that gets past the validation of the IV file entry uses the 32-byte
\* key the password gives.
RecoveryKeyEquivalence ==
    RecoveryKeyCase =>
        /\ last.out = Report(WithPassword)
        /\ fs = WithPassword.fs
        /\ (last.in.iv_key_file = <<>> \/ exists(last.pre, last.in.iv_key_file))
              => /\ last.out.key = sha256(Produced.in.password)
                 /\ Len(last.out.key) = SHA256Size

RecoveryKeyWitness ==
    /\ RecoveryKeyCase
    /\ IVAsProduced
    /\ last.in.password = <<>>
    /\ last.out.result = "success"
    /\ last.out.written = Produced.out.plaintext
    /\ Produced.out.plaintext # <<>>

RecoveryKeyWrongPasswordWitness ==
    /\ RecoveryKeyCase
    /\ IVAsProduced
    /\ last.in.password = PasswordQ
    /\ last.out.result = "success"
    /\ last.out.written = Produced.out.plaintext

---------------------------------------------------------------------------
(* EncryptJob: validation (lines 680-694).                                 *)

ValidationErrors == {"path_empty", "password_empty", "password_mismatch", "path_invalid"}

\* The entries lines 680-694 turn away: no path, a path that is neither a
\* file nor a directory, a password of nothing but blanks, a confirmation
\* that differs.
EncryptRejected(f, in) ==
    \/ in.file_path = <<>>
    \/ ~(isfile(f, in.file_path) \/ isdir(f, in.file_path))
    \/ IsBlank(in.password)
    \/ in.password # in.confirm_password

\* C11: an encryption job whose path is empty or names neither a file nor a
\* directory, whose password is empty, or whose confirmation differs from the
\* password ends with a validation error and leaves the file system exactly
\* as it found it: no container, archive, sentinel, IV file or recovery key
\* file is made and no source is removed.
EncryptValidation ==
    (last.op = "encrypt" /\ EncryptRejected(last.pre, last.in))
        => /\ last.out.result = "error"
           /\ last.out.error \in ValidationErrors
           /\ fs = last.pre
           /\ last.out.encrypted_file_path = None
           /\ last.out.iv_key_file = None
           /\ last.out.keyfile = None

\* A job on an existing folder with every option ticked and a confirmation
\* that differs is turned away.
EncryptValidationWitness ==
    /\ last.op = "encrypt"
    /\ isdir(last.pre, last.in.file_path)
    /\ last.in.password = PasswordP /\ last.in.confirm_password = PasswordQ
    /\ last.in.separate_iv_key /\ last.in.recovery_key
    /\ last.in.remove_encrypted_files
    /\ last.out.error = "password_mismatch"
    /\ fs = last.pre

\* A job with no password on a file that exists is turned away.
EncryptValidationEmptyWitness ==
    /\ last.op = "encrypt"
    /\ isfile(last.pre, last.in.file_path)
    /\ last.in.password = <<>>
    /\ last.out.error = "password_empty"
    /\ fs = last.pre

---------------------------------------------------------------------------
(* DecryptJob: validation (lines 814-838, 885-892).                        *)

DecryptValidationErrors ==
    {"path_empty", "password_empty", "path_invalid", "recovery_key_path",
     "recovery_key_size", "iv_key_path", "iv_key_size"}

\* The entries the validation is to turn away: a path that does not exist,
\* neither a password nor a recovery key file, a recovery key file that is
\* missing or shorter than 64 bytes, an IV file that is missing or shorter
\* than 16 bytes.
DecryptRejected(f, in) ==
    \/ ~exists(f, in.file_path)
    \/ IsBlank(in.password) /\ in.recovery_key_file = <<>>
    \/ /\ in.recovery_key_file # <<>>
       /\ \/ ~exists(f, in.recovery_key_file)
          \/ getsize(f, in.recovery_key_file) < RecoveryKeySize
    \/ /\ in.iv_key_file # <<>>
       /\ \/ ~exists(f, in.iv_key_file)
          \/ getsize(f, in.iv_key_file) < IVSize

\* Whether line 864 can turn the recovery key file's first 64 characters into
\* a key: no file given, or one the validation turns away, or hexadecimal
\* digits.
RecoveryKeyUsable(f, in) ==
    \/ in.recovery_key_file = <<>>
    \/ ~isfile(f, in.recovery_key_file)
    \/ getsize(f, in.recovery_key_file) < RecoveryKeySize
    \/ ~FromHexRaises(Take(ReadFile(f, in.recovery_key_file), RecoveryKeySize))

\* C12: a decryption job whose path does not exist, that has neither a
\* password nor a recovery key file, whose recovery key file is missing or
\* shorter than 64 bytes, or whose IV file is missing or shorter than 16
\* bytes, ends without success, with the file system as it found it: no
\* extraction directory, no output file, the container still there.  It ends
\* with one of the validation errors unless the recovery key file given
\* holds 64 characters that are no hexadecimal digits, on which line 864
\* raises before the IV file's size is looked at.
DecryptValidation ==
    (last.op = "decrypt" /\ DecryptRejected(last.pre, last.in))
        => /\ last.out.result # "success"
           /\ fs = last.pre
           /\ last.out.extraction_dir = None
           /\ last.out.decrypted_file_path = None
           /\ ~last.out.wrote
           /\ RecoveryKeyUsable(last.pre, last.in)
                => /\ last.out.result = "error"
                   /\ last.out.error \in DecryptValidationErrors

\* A job on a container this session made, with its password and removal
\* ticked, but with an IV file shorter than 16 bytes, is turned away.
DecryptValidationWitness ==
    /\ last.op = "decrypt"
    /\ Resolve(last.in.file_path) \in DOMAIN encs
    /\ last.in.password = encs[Resolve(last.in.file_path)].in.password
    /\ last.in.remove_encrypted_files
    /\ last.in.recovery_key_file = <<>>
    /\ last.in.iv_key_file = <<"e">>
    /\ last.out.error = "iv_key_size"
    /\ isfile(fs, last.in.file_path)

\* A job with a recovery key file shorter than 64 bytes is turned away.
DecryptValidationKeyWitness ==
    /\ last.op = "decrypt"
    /\ Resolve(last.in.file_path) \in DOMAIN encs
    /\ last.in.recovery_key_file = <<"a", ".txt">>
    /\ last.out.error = "recovery_key_size"
    /\ fs = last.pre

\* A job with a missing IV file and a job with a missing recovery key file
\* are turned away.
DecryptValidationMissingWitness ==
    /\ last.op = "decrypt"
    /\ isfile(last.pre, last.in.file_path)
    /\ last.in.iv_key_file = <<"zz">>
    /\ last.out.error = "iv_key_path"
    /\ fs = last.pre

---------------------------------------------------------------------------
(* Error containment (lines 736-738, 861-883).                             *)

\* C13: no job ends by an exception that leaves its handler: every job ends
\* with the success box or with an error box.
NoUnhandledError ==
    last.op \in {"encrypt", "decrypt"} => last.out.result \in {"success", "error"}

\* C13, first case: a recovery key file of 64 or more bytes that are no
\* hexadecimal digits is reported as an error.
NonHexKeyReported ==
    (/\ last.op = "decrypt"
     /\ last.in.recovery_key_file # <<>>
     /\ isfile(last.pre, last.in.file_path)
     /\ last.in.iv_key_file = <<>>
     /\ ~RecoveryKeyUsable(last.pre, last.in))
        => last.out.result = "error"

\* C13, second case: a folder that does not hold <folder name>.pack is
\* reported as an error.
MissingContainerReported ==
    (/\ last.op = "decrypt"
     /\ isdir(last.pre, last.in.file_path)
     /\ last.in.password = PasswordP
     /\ last.in.recovery_key_file = <<>>
     /\ last.in.iv_key_file = <<>>
     /\ ~exists(last.pre, join(last.in.file_path,
                               basename(last.in.file_path) \o <<".pack">>)))
        => last.out.result = "error"

\* The jobs of C13's cases happen: a decryption with zz.rkey, and one on the
\* folder d, both ended by an exception, with nothing changed.
UnhandledErrorReached ==
    /\ last.op = "decrypt"
    /\ last.out.result = "crash"
    /\ last.out.error \in {"ValueError", "FileNotFoundError"}
    /\ fs = last.pre

---------------------------------------------------------------------------
(* DecryptJob: where the output goes (lines 913-933).                      *)

\* Whether path p lies below the directory dir.
Inside(p, dir) ==
    /\ Len(Resolve(p)) > Len(Resolve(dir)) + 1
    /\ Take(Resolve(p), Len(Resolve(dir)) + 1) = Resolve(dir) \o <<Sep>>

\* A decryption job that passed the IV hash test of lines 903-906.
PassedHashCheck == last.op = "decrypt" /\ last.out.extraction_dir # None

\* C14: in every decryption job that passes the IV hash test, the extraction
\* directory did not exist before the job and the decrypted file is created
\* inside it, whatever the container's name; the path opened for writing did
\* not exist before the job and is not the container.
OutputLocation ==
    PassedHashCheck
        => /\ ~exists(last.pre, last.out.extraction_dir)
           /\ last.out.wrote
           /\ Inside(last.out.decrypted_file_path, last.out.extraction_dir)
           /\ ~exists(last.pre, last.out.decrypted_file_path)
           /\ Resolve(last.out.decrypted_file_path) # Resolve(last.out.file_to_decrypt)

\* C14 for the containers whose name ends in .pack.
OutputLocationPack ==
    (PassedHashCheck /\ endswith(last.out.file_to_decrypt, ".pack"))
        => /\ ~exists(last.pre, last.out.extraction_dir)
           /\ last.out.wrote
           /\ Inside(last.out.decrypted_file_path, last.out.extraction_dir)
           /\ ~exists(last.pre, last.out.decrypted_file_path)

\* C14 for the containers named by a relative path without a directory.
OutputLocationPlain ==
    (PassedHashCheck /\ ~IsAbs(last.out.file_to_decrypt)
                     /\ dirname(last.out.file_to_decrypt) = <<>>)
        => /\ ~exists(last.pre, last.out.extraction_dir)
           /\ last.out.wrote
           /\ Inside(last.out.decrypted_file_path, last.out.extraction_dir)
           /\ ~exists(last.pre, last.out.decrypted_file_path)

\* The renamed container b.bin, given by its absolute path with the right
\* password, passes the hash test; the job opens the container itself for
\* writing and reports success over an emptied container.
OutputLocationReached ==
    /\ PassedHashCheck
    /\ last.in.file_path = Resolve(<<"b", ".bin">>)
    /\ last.in.password = PasswordP
    /\ Resolve(last.out.decrypted_file_path) = Resolve(last.out.file_to_decrypt)
    /\ last.out.result = "success"
    /\ ~last.in.remove_encrypted_files
    /\ ReadFile(last.pre, last.in.file_path) = RenamedContainer
    /\ isfile(fs, last.in.file_path) /\ ReadFile(fs, last.in.file_path) = <<>>

\* The same container given as b.bin is decrypted into b.bin_unpacked/b.bin.
OutputLocationRelativeReached ==
    /\ PassedHashCheck
    /\ last.in.file_path = <<"b", ".bin">>
    /\ last.out.result = "success"
    /\ last.out.decrypted_file_path = <<"b", ".bin", "_unpacked", Sep, "b", ".bin">>
    /\ isfile(fs, last.out.decrypted_file_path)
    /\ ReadFile(fs, last.out.decrypted_file_path) = PlainArchive

---------------------------------------------------------------------------
(* EncryptJob on a folder: removal of the sources, the sentinel and the    *)
(* temporary archive (lines 532-565, 719-730, 776-805).                    *)

\* An encryption job on a folder whose entries pass the validation.
FolderJob ==
    /\ last.op = "encrypt"
    /\ isdir(last.pre, last.in.file_path)
    /\ ~EncryptRejected(last.pre, last.in)

\* The files that were below the job's folder when it started.
SourceFiles ==
    {q \in DOMAIN last.pre : /\ last.pre[q].kind = "file"
                             /\ Inside(q, last.in.file_path)}

\* The directories below the job's folder that hold nothing.
EmptySubdirs ==
    {q \in DOMAIN fs : /\ fs[q].kind = "dir"
                       /\ Inside(q, last.in.file_path)
                       /\ ListDir(fs, q) = <<>>}

\* The temporary archives below the job's folder.
TempArchives ==
    {q \in DOMAIN fs : Inside(q, last.in.file_path) /\ endswith(q, ".temp")}

\* C15: an encryption job on a folder with removal of the sources ticked,
\* every file of the folder readable, completes successfully: the packed
\* files are deleted, the subfolders left empty are pruned, the temporary
\* archive is removed and success is reported.
FolderSourcesRemoved ==
    (FolderJob /\ last.in.remove_encrypted_files /\ last.in.denied = {})
        => /\ last.out.result = "success"
           /\ \A q \in SourceFiles : q \notin DOMAIN fs
           /\ EmptySubdirs = {}
           /\ TempArchives = {}

\* Such a job on the folder d ran: it ended with an error box, its
\* temporary archive and the container both left in the folder.
FolderSourcesRemovedReached ==
    /\ FolderJob
    /\ last.in.file_path = <<"d">>
    /\ last.in.remove_encrypted_files /\ last.in.denied = {}
    /\ last.out.result = "error" /\ last.out.error = "exception"
    /\ isfile(fs, last.out.file_to_encrypt)
    /\ isfile(fs, last.out.encrypted_file_path)
    /\ ~exists(fs, join(last.in.file_path, Sentinel))
    /\ \E i \in 1..Len(last.out.compressed_files) :
          last.out.compressed_files[i] = join(last.in.file_path, Sentinel)

\* Without removal ticked the same folder is encrypted with success.
FolderKeptReached ==
    /\ FolderJob
    /\ last.in.file_path = <<"d">>
    /\ ~last.in.remove_encrypted_files /\ last.in.denied = {}
    /\ last.out.result = "success"

---------------------------------------------------------------------------
(* DecryptJob: the smallest container (lines 877-911).                     *)

\* The container a decryption job on path p works on: lines 866-870.
ContainerOf(f, p) ==
    IF isdir(f, p) THEN join(p, basename(p) \o <<".pack">>) ELSE p

\* A decryption job whose entries pass lines 814-892 and whose container is
\* a file shorter than the least size of its mode: 36 bytes with the IV
\* inside, 20 bytes with an IV file.
ShortContainerJob ==
    /\ last.op = "decrypt"
    /\ ~DecryptRejected(last.pre, last.in)
    /\ RecoveryKeyUsable(last.pre, last.in)
    /\ isfile(last.pre, ContainerOf(last.pre, last.in.file_path))
    /\ getsize(last.pre, ContainerOf(last.pre, last.in.file_path))
          < (IF last.in.iv_key_file = <<>> THEN IVSize + SHA1Size ELSE SHA1Size)

\* C16: a container shorter than 36 bytes with the IV inside, or shorter
\* than 20 bytes with an IV file, is rejected with the size error before the
\* job opens, seeks or reads the container.
MinimumSizeFirst ==
    ShortContainerJob
        => /\ last.out.result = "error"
           /\ last.out.error = "container_size"
           /\ ~last.out.read_container

\* C16 for the containers with the IV inside.
MinimumSizeInline ==
    (ShortContainerJob /\ last.in.iv_key_file = <<>>)
        => /\ last.out.result = "error"
           /\ last.out.error = "container_size"
           /\ ~last.out.read_container

\* The 17-byte file a.txt is given as a container together with an IV file
\* of 16 bytes: the job opened it and ended with the message of line 900.
MinimumSizeReached ==
    /\ ShortContainerJob
    /\ last.in.iv_key_file # <<>>
    /\ getsize(last.pre, last.in.iv_key_file) >= IVSize
    /\ last.out.read_container
    /\ last.out.result = "error" /\ last.out.error = "exception"
    /\ fs = last.pre

\* The same file given without an IV file is turned away by its size.
MinimumSizeInlineReached ==
    /\ ShortContainerJob
    /\ last.in.iv_key_file = <<>>
    /\ getsize(last.pre, last.in.file_path) > 0
    /\ last.out.error = "container_size"
    /\ ~last.out.read_container

\* C17: after an encryption job on a folder has ended, however it ended, no
\* sentinel file is left in the folder.
SentinelGone ==
    FolderJob => ~exists(fs, join(last.in.file_path, Sentinel))

\* C17 for the jobs in which every file of the folder can be read.
SentinelGoneReadable ==
    (FolderJob /\ last.in.denied = {})
        => ~exists(fs, join(last.in.file_path, Sentinel))

\* The folder d was encrypted while d/sub/y could not be read: the job ended
\* with an error box and the sentinel is still in d, which had none.
SentinelLeftReached ==
    /\ FolderJob
    /\ last.in.file_path = <<"d">>
    /\ last.in.denied = {Resolve(<<"d", Sep, "sub", Sep, "y">>)}
    /\ last.out.result = "error" /\ last.out.error = "exception"
    /\ ~exists(last.pre, join(last.in.file_path, Sentinel))
    /\ isfile(fs, join(last.in.file_path, Sentinel))
    /\ ReadFile(fs, join(last.in.file_path, Sentinel)) = SentinelText

\* The temporary archives below the job's folder that were not there before
\* the job.
NewTempArchives == {q \in TempArchives : q \notin DOMAIN last.pre}

\* C18: after an encryption job on a folder has ended, however it ended, the
\* temporary archive it made is not left in the folder.
TempArchiveGone ==
    FolderJob => NewTempArchives = {}

\* C18 for the jobs that report success.
TempArchiveGoneOnSuccess ==
    (FolderJob /\ last.out.result = "success") => NewTempArchives = {}

\* The folder d was encrypted while d/sub/y could not be read, and the folder
\* d was encrypted with removal ticked: both jobs ended with an error box and
\* the temporary archive d/d.temp is still there.
TempArchiveLeftReached ==
    /\ FolderJob
    /\ last.in.file_path = <<"d">>
    /\ last.out.result = "error"
    /\ NewTempArchives = {Resolve(<<"d", Sep, "d", ".temp">>)}
    /\ \/ last.in.denied = {Resolve(<<"d", Sep, "sub", Sep, "y">>)}
       \/ last.in.denied = {} /\ last.in.remove_encrypted_files

\* An encryption job on a folder in which some files at the folder's top
\* level cannot be read while the sentinel and every file of a subfolder can:
\* each failure is caught at line 553 and at least the sentinel is packed.
PartialPackJob ==
    /\ FolderJob
    /\ last.in.denied # {}
    /\ \A q \in last.in.denied : dirname(q) = Resolve(last.in.file_path)
    /\ Resolve(join(last.in.file_path, Sentinel)) \notin last.in.denied

\* C19: files that cannot be packed do not end the job: they are left out,
\* the archive of the other files is encrypted and success is reported.
PartialPackSucceeds ==
    PartialPackJob
        => /\ last.out.result = "success"
           /\ isfile(fs, last.out.encrypted_file_path)
           /\ \A i \in 1..Len(last.out.compressed_files) :
                 Resolve(last.out.compressed_files[i]) \notin last.in.denied

\* The folder d was encrypted while d/x could not be read: the job ended
\* with an error box before any container was made; d/x is still there.
PartialPackReached ==
    /\ PartialPackJob
    /\ last.in.denied = {Resolve(<<"d", Sep, "x">>)}
    /\ last.out.result = "error" /\ last.out.error = "exception"
    /\ last.out.encrypted_file_path = None
    /\ ~exists(fs, <<"d", Sep, "d", ".pack">>)
    /\ isfile(fs, <<"d", Sep, "x">>)
    /\ isfile(fs, <<"d", Sep, "d", ".temp">>)

\* An encryption job on a folder of which compress_directory packed no file:
\* the folder could not be listed, or none of its files could be read, among
\* them a file with the sentinel's name that was there before the job and
\* that the job wrote the sentinel into.
ZeroPackedJob ==
    /\ FolderJob
    /\ \/ Resolve(last.in.file_path) \in last.in.denied
       \/ /\ isfile(last.pre, join(last.in.file_path, Sentinel))
          /\ SourceFiles \subseteq last.in.denied

\* The containers below the job's folder that were not there before the job.
NewContainers ==
    {q \in DOMAIN fs : /\ Inside(q, last.in.file_path) /\ endswith(q, ".pack")
                       /\ q \notin DOMAIN last.pre}

\* C20: when no file of the folder is packed, the archive is deleted, the job
\* ends with a reported failure, no encryption is started and no container
\* is left.
ZeroPackedFails ==
    ZeroPackedJob
        => /\ last.out.result = "error"
           /\ NewTempArchives = {}
           /\ last.out.encrypted_file_path = None
           /\ NewContainers = {}

\* C20 for a folder that can be listed while none of its files can be read.
ZeroPackedUnreadableFiles ==
    (ZeroPackedJob /\ Resolve(last.in.file_path) \notin last.in.denied)
        => /\ last.out.result = "error"
           /\ NewTempArchives = {}
           /\ last.out.encrypted_file_path = None
           /\ NewContainers = {}

\* The folder b was encrypted while it could not be listed: nothing was
\* packed, the archive was deleted, and the job went on to create the
\* container b/b.pack, which is left empty, before it ended with an error.
ZeroPackedReached ==
    /\ ZeroPackedJob
    /\ last.in.denied = {Resolve(<<"b">>)}
    /\ last.out.compressed_files = <<>>
    /\ last.out.result = "error" /\ last.out.error = "exception"
    /\ NewTempArchives = {}
    /\ last.out.encrypted_file_path = <<"b", Sep, "b", ".pack">>
    /\ ~exists(last.pre, <<"b", Sep, "b", ".pack">>)
    /\ isfile(fs, <<"b", Sep, "b", ".pack">>)
    /\ ReadFile(fs, <<"b", Sep, "b", ".pack">>) = <<>>

\* The folder b was encrypted while neither its sentinel nor its file could
\* be read: the job ended with an error and left no container.
ZeroPackedUnreadableReached ==
    /\ ZeroPackedJob
    /\ Resolve(<<"b", Sep, "x">>) \in last.in.denied
    /\ last.out.result = "error"
    /\ NewContainers = {} /\ NewTempArchives = {}

---------------------------------------------------------------------------
(* DecryptJob: unpacking (lines 961-970).                                  *)

\* A decryption job that wrote the decrypted file.
Decrypted == last.op = "decrypt" /\ last.out.wrote

\* The files the job left in its extraction directory.
Extracted == TreeOf(fs, last.out.extraction_dir)

\* The files of an archive's members other than the sentinel, as extractall
\* lays them out.
MemberFiles(F) ==
    { <<ParseTar(F).members[i].name, ParseTar(F).members[i].data>> :
        i \in {j \in 1..Len(ParseTar(F).members) :
                 /\ ParseTar(F).members[j].kind = "file"
                 /\ ParseTar(F).members[j].name # Sentinel} }

UnpackPlainArchiveReached ==
    /\ Decrypted
    /\ last.in.file_path = <<"b", ".bin">>
    /\ last.out.written = PlainArchive
    /\ ParseTar(last.out.written).ok /\ ~Marked(last.out.written)
    /\ ~last.out.unpacked /\ last.out.result = "success"
    /\ Extracted = {<<<<"b", ".bin">>, PlainArchive>>}

\* A container of the file a.txt was decrypted: the payload is no archive and
\* is left as the decrypted file.
UnpackFlatFileReached ==
    /\ Decrypted
    /\ ~ParseTar(last.out.written).ok
    /\ last.out.written = ReadFile(last.pre, <<"a", ".txt">>)
    /\ isfile(last.pre, <<"a", ".txt">>)
    /\ ~last.out.unpacked /\ last.out.result = "success"
    /\ isfile(fs, last.out.decrypted_file_path)
    /\ ReadFile(fs, last.out.decrypted_file_path) = last.out.written

---------------------------------------------------------------------------
(* The cipher pipeline on its own: the loops of lines 760-771 and 942-959  *)
(* run on small plaintexts with small chunk sizes.                         *)

MaxLen == 4

MaxChunk == 5

RECURSIVE SeqsUpTo(_, _)
SeqsUpTo(S, n) ==
    IF n = 0 THEN {<<>>}
    ELSE SeqsUpTo(S, n - 1)
         \cup {Append(t, x) : t \in {u \in SeqsUpTo(S, n - 1) : Len(u) = n - 1}, x \in S}

\* The plaintexts, keys, IVs and chunk sizes the pipeline is run on.
PipePlaintexts == SeqsUpTo({7, 255}, MaxLen)

PipeKeys == {sha256(PasswordP), sha256(PasswordQ)}

PipeChunks == 1..MaxChunk

PipeInit ==
    /\ fs = EmptyFS /\ last = NoLast /\ encs = <<>> /\ njobs = 0
    /\ blk = NoBlk /\ alloc = NoAlloc /\ nalloc = 0
    /\ pipe = NoPipe

\* Lines 760-771: the plaintext is encrypted in chunks of a bytes.
PipeEncrypt ==
    /\ pipe.op = "none"
    /\ \E plaintext \in PipePlaintexts, key \in PipeKeys, iv \in IVs, a \in PipeChunks :
          pipe' = [op |-> "encrypted", plaintext |-> plaintext, key |-> key,
                   iv |-> iv, a |-> a, b |-> a,
                   ciphertext |-> EncryptLoop(AESNew(key, iv), plaintext, 0, a, <<>>),
                   decrypted |-> <<>>]
    /\ UNCHANGED <<fs, last, encs, njobs, blk, alloc, nalloc>>

\* Lines 942-959: the ciphertext is decrypted in chunks of b bytes.
PipeDecrypt ==
    /\ pipe.op = "encrypted"
    /\ \E b \in PipeChunks :
          pipe' = [pipe EXCEPT !.op = "decrypted", !.b = b,
                               !.decrypted = DecryptLoop(AESNew(pipe.key, pipe.iv),
                                                         pipe.ciphertext, 0, b, <<>>)]
    /\ UNCHANGED <<fs, last, encs, njobs, blk, alloc, nalloc>>

\* The next run starts.
PipeReset ==
    /\ pipe.op = "decrypted"
    /\ pipe' = NoPipe
    /\ UNCHANGED <<fs, last, encs, njobs, blk, alloc, nalloc>>

PipeNext == PipeEncrypt \/ PipeDecrypt \/ PipeReset

SpecPipe == PipeInit /\ [][PipeNext]_vars

\* cipher.encrypt of the whole plaintext in one call.
OnePass(key, iv, plaintext) == CipherBytes(AESNew(key, iv), plaintext)

\* C22: for every plaintext, key, IV and chunk sizes a and b, the ciphertext
\* written in chunks of a bytes is the ciphertext of one pass over the whole
\* plaintext, and decrypting it in chunks of b bytes gives back the plaintext.
ChunkIndependence ==
    /\ pipe.op \in {"encrypted", "decrypted"}
          => pipe.ciphertext = OnePass(pipe.key, pipe.iv, pipe.plaintext)
    /\ pipe.op = "decrypted" => pipe.decrypted = pipe.plaintext

\* A plaintext of four bytes was encrypted in chunks of 3 and decrypted in
\* chunks of 2: neither chunking falls on the other's boundaries or on the
\* plaintext's end.
ChunkIndependenceWitness ==
    /\ pipe.op = "decrypted"
    /\ Len(pipe.plaintext) = MaxLen
    /\ pipe.a = 3 /\ pipe.b = 2
    /\ pipe.decrypted = pipe.plaintext
    /\ pipe.ciphertext # pipe.plaintext

---------------------------------------------------------------------------
(* EncryptJob: what happens to the sources (lines 532-556, 776-798).       *)

\* What was at or below the job's path before the job.
Sources ==
    {q \in DOMAIN last.pre : \/ q = Resolve(last.in.file_path)
                             \/ Inside(q, last.in.file_path)}

\* C23: after an encryption job without removal of the sources, everything
\* that was at or below the source path before the job, a file named
\* ~encrypto_pack included, is still there with its contents; the job has
\* only added files.
SourcePreserved ==
    (last.op = "encrypt" /\ ~last.in.remove_encrypted_files)
        => /\ \A q \in Sources : q \in DOMAIN fs /\ fs[q] = last.pre[q]
           /\ \A q \in DOMAIN last.pre : q \in DOMAIN fs /\ fs[q] = last.pre[q]

\* C23 for everything but a file named ~encrypto_pack at the top of the
\* source folder.
SourcePreservedButSentinel ==
    (last.op = "encrypt" /\ ~last.in.remove_encrypted_files)
        => \A q \in DOMAIN last.pre :
              \/ q = Resolve(join(last.in.file_path, Sentinel))
              \/ q \in DOMAIN fs /\ fs[q] = last.pre[q]

\* The folder b, which held a file ~encrypto_pack of its own, was encrypted
\* without removal: the job reported success and that file is gone.
SourcePreservedReached ==
    /\ last.op = "encrypt" /\ ~last.in.remove_encrypted_files
    /\ last.in.file_path = <<"b">> /\ last.in.denied = {}
    /\ last.out.result = "success"
    /\ isfile(last.pre, join(<<"b">>, Sentinel))
    /\ ReadFile(last.pre, join(<<"b">>, Sentinel)) = <<3>>
    /\ ~exists(fs, join(<<"b">>, Sentinel))
    /\ isfile(fs, <<"b", Sep, "x">>)

\* The file a.txt was encrypted without removal, with an IV file and a
\* recovery key file: it is still there, unchanged, next to three new files.
SourceFileKeptReached ==
    /\ last.op = "encrypt" /\ ~last.in.remove_encrypted_files
    /\ last.in.file_path = <<"a", ".txt">>
    /\ last.in.separate_iv_key /\ last.in.recovery_key
    /\ last.out.result = "success"
    /\ fs[Resolve(<<"a", ".txt">>)] = last.pre[Resolve(<<"a", ".txt">>)]
    /\ Cardinality(DOMAIN fs) = Cardinality(DOMAIN last.pre) + 3

---------------------------------------------------------------------------
(* When the inputs are deleted (lines 759-787, 932-980).                   *)

\* What was there before the job and is not there after it.
Deleted == {q \in DOMAIN last.pre : q \notin DOMAIN fs}

\* The container of the job is complete: the IV unless it went to an IV file,
\* the ciphertext of the whole plaintext, the SHA-1 of the IV.
ContainerComplete ==
    /\ isfile(fs, last.out.encrypted_file_path)
    /\ ReadFile(fs, last.out.encrypted_file_path)
         = (IF last.in.separate_iv_key THEN <<>> ELSE last.in.iv)
           \o OnePass(sha256(last.in.password), last.in.iv, last.out.plaintext)
           \o sha1(last.in.iv)

\* C24: an encryption job deletes a source only if removal is ticked and the
\* container then holds every ciphertext chunk and the IV hash; a decryption
\* job deletes nothing but the container, and that only if removal is ticked
\* and decryption and unpacking are over, the job reporting success; a job
\* that fails earlier has deleted no input.
InputsDeletedLast ==
    /\ (last.op = "encrypt" /\ Deleted # {})
          => /\ last.in.remove_encrypted_files
             /\ Deleted \subseteq Sources
             /\ ContainerComplete
    /\ (last.op = "decrypt" /\ Deleted # {})
          => /\ last.in.remove_encrypted_files
             /\ Deleted = {Resolve(last.out.file_to_decrypt)}
             /\ last.out.wrote
             /\ last.out.result = "success"

\* C24 for everything but a file named ~encrypto_pack at the top of the
\* source folder.
InputsDeletedLastButSentinel ==
    /\ (last.op = "encrypt"
        /\ Deleted \ {Resolve(join(last.in.file_path, Sentinel))} # {})
          => /\ last.in.remove_encrypted_files
             /\ Deleted \subseteq Sources
             /\ ContainerComplete
    /\ (last.op = "decrypt" /\ Deleted # {})
          => /\ last.in.remove_encrypted_files
             /\ Deleted = {Resolve(last.out.file_to_decrypt)}
             /\ last.out.wrote
             /\ last.out.result = "success"

\* The folder b, which held a file ~encrypto_pack of its own, was encrypted
\* without removal while it could not be listed: the job ended with an
\* error, no ciphertext written, and that file is deleted.
InputsDeletedEarlyReached ==
    /\ last.op = "encrypt" /\ ~last.in.remove_encrypted_files
    /\ last.in.file_path = <<"b">>
    /\ last.out.result = "error"
    /\ Deleted = {Resolve(join(<<"b">>, Sentinel))}
    /\ ~ContainerComplete

\* The file a.txt was encrypted with removal: it is gone and the container
\* is complete.
InputsDeletedFileReached ==
    /\ last.op = "encrypt" /\ last.in.remove_encrypted_files
    /\ last.in.file_path = <<"a", ".txt">>
    /\ last.out.result = "success"
    /\ Deleted = {Resolve(<<"a", ".txt">>)}
    /\ ContainerComplete

\* The container of a folder was decrypted with removal: it was unpacked and
\* only the container is gone.
InputsDeletedContainerReached ==
    /\ last.op = "decrypt" /\ last.in.remove_encrypted_files
    /\ last.out.unpacked /\ last.out.result = "success"
    /\ Deleted = {Resolve(last.out.file_to_decrypt)}

\* A decryption with removal that failed on a wrong IV file deleted nothing.
InputsKeptOnFailureReached ==
    /\ last.op = "decrypt" /\ last.in.remove_encrypted_files
    /\ last.out.error = "integrity"
    /\ Deleted = {}
    /\ isfile(fs, last.out.file_to_decrypt)

=============================================================================
